---- MODULE Spec2Model ----
(***************************************************************************)
(* Option DAX: portfolio of option structures.                             *)
(*                                                                         *)
(* The module models                                                       *)
(*   - the list aggregators (calculateTotalGreeks,                         *)
(*     calculatePnlInfoForStructure) and the detail view's analysis,       *)
(*   - the detail view's editing session and the store operations          *)
(*     (updateStructure, closeStructure, reopenStructure, fetchStructures, *)
(*     refreshDaxSpot) against the backend tables,                         *)
(*   - the equity / drawdown series of PortfolioAnalysis.                  *)
(*                                                                         *)
(* Numbers are integers: prices in points, money in the smallest unit.     *)
(* An optional value (null / undefined / '' in the source) is the empty    *)
(* set, a present value v is the singleton {v}.                            *)
(***************************************************************************)
EXTENDS Integers, Sequences, FiniteSets, TLC

VARIABLES
    db,              \* backend tables: sequence of structure rows with their legs
    structures,      \* portfolioStore.structures
    marketData,      \* portfolioStore.marketData
    now,             \* the system clock, in days
    view,            \* portfolioStore.currentView
    structureId,     \* portfolioStore.currentStructureId: None, Some(0) for 'new', Some(id)
    localStructure,  \* StructureDetailView: localStructure (None when null)
    isReadOnly,      \* StructureDetailView: isReadOnly
    isSaving,        \* StructureDetailView: isSaving
    confirmClose,    \* StructureDetailView: confirmClose
    simulatedSpot,   \* StructureDetailView: simulatedSpot
    isLiveMode,      \* StructureDetailView: isLiveMode
    steps,           \* number of edits and refreshes so far (bounds the session)
    actions,         \* number of navigation and persistence actions so far
    closedStructures,\* PortfolioAnalysis: the Closed structures, in store order
    initialCapital,  \* settings.initialCapital
    sortedStructures,\* equityChartData: the sorted copy being walked
    cumulativePnl,   \* equityChartData: running sum
    dataPoints,      \* equityChartData: the points emitted so far
    eqPc,            \* position inside equityChartData
    viewRange,       \* PayoffChart: viewRange, the zoom in percent
    simTimePercent,  \* PayoffChart: simTimePercent
    confirmDelete,   \* StructureDetailView: confirmDelete
    closeTimers,     \* pending timers set by handleCloseAction since the view was mounted
    deleteTimers,    \* pending timers set by handleDeleteAction since the view was mounted
    isLoadingSpot,   \* portfolioStore.isLoadingSpot
    isPriceDelayed,  \* portfolioStore.isPriceDelayed
    inFlight,        \* refreshDaxSpot calls that are awaiting fetchMarketData
    isLoading,       \* portfolioStore.isLoading
    deleteIds,       \* deleteStructures: the structureIds of the last call
    deleteState,     \* deleteStructures: "none", "pending", "returned" or "thrown"
    retry,           \* withRetry: the call in progress (its arguments, i, lastError)
    fetch            \* fetchMarketData: the call in progress (daxSpot, daxVolatility)

vars == <<db, structures, marketData, now, view, structureId, localStructure,
          isReadOnly, isSaving, confirmClose, simulatedSpot, isLiveMode,
          steps, actions, closedStructures, initialCapital, sortedStructures,
          cumulativePnl, dataPoints, eqPc, viewRange, simTimePercent,
          confirmDelete, closeTimers, deleteTimers,
          isLoadingSpot, isPriceDelayed, inFlight,
          isLoading, deleteIds, deleteState, retry, fetch>>

storeVars  == <<db, structures, marketData, now>>
confirmVars == <<confirmDelete, closeTimers, deleteTimers>>
detailVars == <<view, structureId, localStructure, isReadOnly, isSaving,
                confirmClose, simulatedSpot, isLiveMode, confirmVars>>
equityVars == <<closedStructures, initialCapital, sortedStructures,
                cumulativePnl, dataPoints, eqPc>>
chartVars  == <<viewRange, simTimePercent>>
refreshVars == <<isLoadingSpot, isPriceDelayed, inFlight>>
deleteVars == <<isLoading, deleteIds, deleteState>>
serviceVars == <<retry, fetch>>

----------------------------------------------------------------------------
(* Optional values *)

None == {}
Some(v) == {v}

\* no call of withRetry, no call of fetchMarketData in progress
NoRetry == [pc |-> "idle"]
NoFetch == [pc |-> "idle"]
IsSome(o) == o # {}
Get(o) == CHOOSE v \in o : TRUE

\* JavaScript `x || 0` on an optional number
OrZero(o) == IF IsSome(o) THEN Get(o) ELSE 0

Abs(x) == IF x < 0 THEN -x ELSE x
Max(a, b) == IF a >= b THEN a ELSE b
Min(a, b) == IF a <= b THEN a ELSE b

----------------------------------------------------------------------------
(* Bounds of the model *)

MaxLegs == 2          \* legs of a structure being composed
MaxSteps == 2         \* user actions per session
MaxNow == 2           \* last day of the clock
MaxClosed == 3        \* closed structures in the analysis

----------------------------------------------------------------------------
(* services/blackScholes: not part of the sources at hand; modelled from   *)
(* the specification's Pricing Kernel (section 4.1) on integers.           *)

\* getTimeToExpiry(expiryDate): time from the clock to the expiry
getTimeToExpiry(expiryDate) == expiryDate - now

\* getYearFraction(from, to)
getYearFraction(from, to) == to - from

Intrinsic(optionType, spot, strike) ==
    IF optionType = "Call" THEN Max(0, spot - strike) ELSE Max(0, strike - spot)

\* new BlackScholes(S, K, T, r, sigma).callPrice()
callPrice(S, K, T, r, sigma) ==
    IF T <= 0 \/ sigma <= 0 THEN Intrinsic("Call", S, K)
    ELSE Intrinsic("Call", S, K) + sigma * T + r * T

\* new BlackScholes(S, K, T, r, sigma).putPrice(): call - S + discounted K
putPrice(S, K, T, r, sigma) ==
    IF T <= 0 \/ sigma <= 0 THEN Intrinsic("Put", S, K)
    ELSE callPrice(S, K, T, r, sigma) - S + (K - r * T)

bsPrice(optionType, S, K, T, r, sigma) ==
    IF optionType = "Call" THEN callPrice(S, K, T, r, sigma)
    ELSE putPrice(S, K, T, r, sigma)

\* callGreeks(): delta in hundredths, theta per day, vega per vol point
callGreeks(S, K, T, r, sigma) ==
    IF T <= 0 \/ sigma <= 0
    THEN [delta |-> IF S > K THEN 100 ELSE 0, gamma |-> 0, theta |-> 0, vega |-> 0]
    ELSE [delta |-> IF S > K THEN 60 ELSE IF S = K THEN 50 ELSE 40,
          gamma |-> IF S = K THEN 2 ELSE 1,
          theta |-> 0 - sigma - r,
          vega  |-> T]

putGreeks(S, K, T, r, sigma) ==
    IF T <= 0 \/ sigma <= 0
    THEN [delta |-> IF S < K THEN -100 ELSE 0, gamma |-> 0, theta |-> 0, vega |-> 0]
    ELSE [delta |-> callGreeks(S, K, T, r, sigma).delta - 100,
          gamma |-> callGreeks(S, K, T, r, sigma).gamma,
          theta |-> 0 - sigma,
          vega  |-> T]

bsGreeks(optionType, S, K, T, r, sigma) ==
    IF optionType = "Call" THEN callGreeks(S, K, T, r, sigma)
    ELSE putGreeks(S, K, T, r, sigma)

----------------------------------------------------------------------------
(* StructureListView: the list aggregators *)

\* leg.enabled === false
IsDisabled(leg) == leg.enabled = "false"

\* leg.closingPrice !== null && leg.closingPrice !== undefined
\*   && Number(leg.closingPrice) !== 0
isLegClosed(leg) == IsSome(leg.closingPrice) /\ Get(leg.closingPrice) # 0

\* ((leg.openingCommission || 0) + (leg.closingCommission || 0)) * Math.abs(leg.quantity)
\* variant: the commissions multiplied by the signed quantity
LegCommissionsSigned(leg) ==
    (OrZero(leg.openingCommission) + OrZero(leg.closingCommission)) * leg.quantity

LegCommissions(leg) ==
    (OrZero(leg.openingCommission) + OrZero(leg.closingCommission)) * Abs(leg.quantity)

\* variant: an expired leg priced as if a day remained
ListCurrentPriceDayLeft(leg, md) ==
    IF isLegClosed(leg) THEN Get(leg.closingPrice)
    ELSE bsPrice(leg.optionType, md.daxSpot, leg.strike,
                 Max(1, getTimeToExpiry(leg.expiryDate)), md.riskFreeRate,
                 leg.impliedVolatility)

\* the currentPrice of one leg inside calculatePnlInfoForStructure
ListCurrentPrice(leg, md) ==
    IF isLegClosed(leg) THEN Get(leg.closingPrice)
    ELSE IF getTimeToExpiry(leg.expiryDate) > 0
         THEN bsPrice(leg.optionType, md.daxSpot, leg.strike,
                      getTimeToExpiry(leg.expiryDate), md.riskFreeRate,
                      leg.impliedVolatility)
         ELSE Intrinsic(leg.optionType, md.daxSpot, leg.strike)

\* one step of the reduce of calculatePnlInfoForStructure
PnlStep(acc, leg, structure, md) ==
    IF IsDisabled(leg) THEN acc
    ELSE LET currentPrice == ListCurrentPrice(leg, md)
             priceDiff    == currentPrice - leg.tradePrice
             pnlPoints    == priceDiff * leg.quantity
             grossPnl     == pnlPoints * structure.multiplier
             netPnl       == grossPnl - LegCommissions(leg)
         IN  [netPnl |-> acc.netPnl + netPnl,
              totalPoints |-> acc.totalPoints + pnlPoints]

RECURSIVE PnlReduce(_, _, _, _)
PnlReduce(acc, i, structure, md) ==
    IF i > Len(structure.legs) THEN acc
    ELSE PnlReduce(PnlStep(acc, structure.legs[i], structure, md), i + 1, structure, md)

\* variant: the calculated values whatever the status
calculatePnlInfoIgnoringStatus(structure, md) ==
    PnlReduce([netPnl |-> 0, totalPoints |-> 0], 1, structure, md)

\* calculatePnlInfoForStructure(structure, marketData).  A structure of the
\* store that is not Active always carries a numeric realizedPnl (lemma
\* ClosedHasRealizedPnl), so `realizedPnl !== undefined` is IsSome here.
calculatePnlInfoForStructure(structure, md) ==
    LET calculated == PnlReduce([netPnl |-> 0, totalPoints |-> 0], 1, structure, md)
    IN  IF structure.status # "Active" /\ IsSome(structure.realizedPnl)
        THEN [netPnl |-> Get(structure.realizedPnl), totalPoints |-> calculated.totalPoints]
        ELSE calculated

\* the legs for which calculatePnlInfoForStructure constructs a BlackScholes
PnlKernelLegs(structure) ==
    {i \in 1..Len(structure.legs) :
        /\ ~IsDisabled(structure.legs[i])
        /\ ~isLegClosed(structure.legs[i])
        /\ getTimeToExpiry(structure.legs[i].expiryDate) > 0}

\* one step of the reduce of calculateTotalGreeks
\* variant: the Greeks accumulated over closed legs too
GreeksStepClosedToo(acc, leg, md) ==
    IF IsDisabled(leg) THEN acc
    ELSE LET greeks == bsGreeks(leg.optionType, md.daxSpot, leg.strike,
                                getTimeToExpiry(leg.expiryDate), md.riskFreeRate,
                                leg.impliedVolatility)
         IN  [delta |-> acc.delta + greeks.delta * leg.quantity,
              gamma |-> acc.gamma + greeks.gamma * leg.quantity,
              theta |-> acc.theta + greeks.theta * leg.quantity,
              vega  |-> acc.vega + greeks.vega * leg.quantity]

GreeksStep(acc, leg, md) ==
    IF IsDisabled(leg) THEN acc
    ELSE IF isLegClosed(leg) THEN acc
    ELSE LET greeks == bsGreeks(leg.optionType, md.daxSpot, leg.strike,
                                getTimeToExpiry(leg.expiryDate), md.riskFreeRate,
                                leg.impliedVolatility)
         IN  [delta |-> acc.delta + greeks.delta * leg.quantity,
              gamma |-> acc.gamma + greeks.gamma * leg.quantity,
              theta |-> acc.theta + greeks.theta * leg.quantity,
              vega  |-> acc.vega + greeks.vega * leg.quantity]

RECURSIVE GreeksReduce(_, _, _, _)
GreeksReduce(acc, i, structure, md) ==
    IF i > Len(structure.legs) THEN acc
    ELSE GreeksReduce(GreeksStep(acc, structure.legs[i], md), i + 1, structure, md)

initialGreeks == [delta |-> 0, gamma |-> 0, theta |-> 0, vega |-> 0]

\* calculateTotalGreeks(structure, marketData)
calculateTotalGreeks(structure, md) ==
    IF Len(structure.legs) = 0 THEN initialGreeks
    ELSE GreeksReduce(initialGreeks, 1, structure, md)

\* the legs for which calculateTotalGreeks constructs a BlackScholes
GreeksKernelLegs(structure) ==
    {i \in 1..Len(structure.legs) :
        ~IsDisabled(structure.legs[i]) /\ ~isLegClosed(structure.legs[i])}

----------------------------------------------------------------------------
(* StructureDetailView: analysis (useMemo) *)

\* structures.find(s => s.id === localStructure.id)?.legs.find(l => l.id === leg.id)
\* as an optional leg
StoreLeg(ls, leg) ==
    LET ss == {k \in 1..Len(structures) : structures[k].id = ls.id}
    IN  IF ss = {} THEN None
        ELSE LET st == structures[CHOOSE k \in ss : \A m \in ss : k <= m]
                 ll == {j \in 1..Len(st.legs) : st.legs[j].id = leg.id}
             IN  IF ll = {} THEN None
                 ELSE Some(st.legs[CHOOSE j \in ll : \A m \in ll : j <= m])

\* isLiveMode && storeLeg?.currentIv ? storeLeg.currentIv : leg.impliedVolatility
volatilityToUse(ls, leg) ==
    LET sl == StoreLeg(ls, leg)
    IN  IF isLiveMode /\ IsSome(sl) /\ IsSome(Get(sl).currentIv) /\ Get(Get(sl).currentIv) # 0
        THEN Get(Get(sl).currentIv)
        ELSE leg.impliedVolatility

\* variant: a closed leg valued at its fair value too
LegAnalysisAtFairValue(ls, leg) ==
    LET timeToExpiry == getTimeToExpiry(leg.expiryDate)
        vol          == volatilityToUse(ls, leg)
        fairValue    == bsPrice(leg.optionType, simulatedSpot, leg.strike, timeToExpiry,
                                marketData.riskFreeRate, vol)
        greeks       == bsGreeks(leg.optionType, simulatedSpot, leg.strike, timeToExpiry,
                                 marketData.riskFreeRate, vol)
        closed       == isLegClosed(leg)
        currentPrice == fairValue
        priceDiff    == currentPrice - leg.tradePrice
        pnlPoints    == priceDiff * leg.quantity
        grossPnl     == pnlPoints * ls.multiplier
        commissions  == LegCommissions(leg)
        thetaPoints  == greeks.theta * leg.quantity
        vegaPoints   == greeks.vega * leg.quantity
    IN  [id |-> leg.id, fairValue |-> fairValue, currentPrice |-> currentPrice,
         pnlPoints |-> pnlPoints, grossPnl |-> grossPnl, commissions |-> commissions,
         netPnl |-> grossPnl - commissions, isClosed |-> closed,
         delta |-> greeks.delta * leg.quantity * 100,
         gamma |-> greeks.gamma * leg.quantity,
         theta |-> thetaPoints * ls.multiplier,
         vega  |-> vegaPoints * ls.multiplier,
         thetaPoints |-> thetaPoints, vegaPoints |-> vegaPoints,
         volatilityUsed |-> vol]

\* one element of legAnalysis
LegAnalysis(ls, leg) ==
    LET timeToExpiry == getTimeToExpiry(leg.expiryDate)
        vol          == volatilityToUse(ls, leg)
        fairValue    == bsPrice(leg.optionType, simulatedSpot, leg.strike, timeToExpiry,
                                marketData.riskFreeRate, vol)
        greeks       == bsGreeks(leg.optionType, simulatedSpot, leg.strike, timeToExpiry,
                                 marketData.riskFreeRate, vol)
        closed       == isLegClosed(leg)
        currentPrice == IF closed THEN Get(leg.closingPrice) ELSE fairValue
        priceDiff    == currentPrice - leg.tradePrice
        pnlPoints    == priceDiff * leg.quantity
        grossPnl     == pnlPoints * ls.multiplier
        commissions  == LegCommissions(leg)
        thetaPoints  == greeks.theta * leg.quantity
        vegaPoints   == greeks.vega * leg.quantity
    IN  [id |-> leg.id, fairValue |-> fairValue, currentPrice |-> currentPrice,
         pnlPoints |-> pnlPoints, grossPnl |-> grossPnl, commissions |-> commissions,
         netPnl |-> grossPnl - commissions, isClosed |-> closed,
         delta |-> greeks.delta * leg.quantity * 100,
         gamma |-> greeks.gamma * leg.quantity,
         theta |-> thetaPoints * ls.multiplier,
         vega  |-> vegaPoints * ls.multiplier,
         thetaPoints |-> thetaPoints, vegaPoints |-> vegaPoints,
         volatilityUsed |-> vol]

legAnalysis(ls) == [i \in 1..Len(ls.legs) |-> LegAnalysis(ls, ls.legs[i])]

\* localStructure.legs.find(l => l.id === id): the first leg with that id
FindLeg(ls, id) ==
    LET ll == {j \in 1..Len(ls.legs) : ls.legs[j].id = id}
    IN  IF ll = {} THEN None ELSE Some(ls.legs[CHOOSE j \in ll : \A m \in ll : j <= m])

\* leg?.enabled === false for the leg found by the row's id
RowDisabled(ls, row) ==
    IsSome(FindLeg(ls, row.id)) /\ IsDisabled(Get(FindLeg(ls, row.id)))

\* variant: the totals accumulated over disabled legs too
TotalsStepDisabledToo(acc, curr, ls) ==
    LET a == [acc EXCEPT !.pnl = @ + curr.netPnl,
                         !.pnlPoints = @ + curr.pnlPoints,
                         !.gross = @ + curr.grossPnl,
                         !.comm = @ + curr.commissions]
    IN  IF ~curr.isClosed
        THEN [a EXCEPT !.delta = @ + curr.delta,
                       !.gamma = @ + curr.gamma,
                       !.theta = @ + curr.theta,
                       !.vega = @ + curr.vega,
                       !.thetaPoints = @ + curr.thetaPoints,
                       !.vegaPoints = @ + curr.vegaPoints]
        ELSE a

\* one step of the reduce that builds totals
TotalsStep(acc, curr, ls) ==
    IF RowDisabled(ls, curr) THEN acc
    ELSE LET a == [acc EXCEPT !.pnl = @ + curr.netPnl,
                              !.pnlPoints = @ + curr.pnlPoints,
                              !.gross = @ + curr.grossPnl,
                              !.comm = @ + curr.commissions]
         IN  IF ~curr.isClosed
             THEN [a EXCEPT !.delta = @ + curr.delta,
                            !.gamma = @ + curr.gamma,
                            !.theta = @ + curr.theta,
                            !.vega = @ + curr.vega,
                            !.thetaPoints = @ + curr.thetaPoints,
                            !.vegaPoints = @ + curr.vegaPoints]
             ELSE a

RECURSIVE TotalsReduce(_, _, _, _)
TotalsReduce(acc, i, rows, ls) ==
    IF i > Len(rows) THEN acc
    ELSE TotalsReduce(TotalsStep(acc, rows[i], ls), i + 1, rows, ls)

initialTotals == [pnl |-> 0, pnlPoints |-> 0, gross |-> 0, comm |-> 0, delta |-> 0,
                  gamma |-> 0, theta |-> 0, vega |-> 0, thetaPoints |-> 0,
                  vegaPoints |-> 0]

\* variant: the bucket filter without the enabled test
InBucketDisabledToo(ls, row, wantClosed) == row.isClosed = wantClosed

\* the filter of a bucket: l.isClosed (or !l.isClosed) && leg?.enabled !== false
InBucket(ls, row, wantClosed) ==
    row.isClosed = wantClosed /\ ~RowDisabled(ls, row)

\* legAnalysis.filter(...).reduce((acc, l) => acc + l.netPnl (or l.pnlPoints), 0)
RECURSIVE BucketSum(_, _, _, _, _)
BucketSum(i, rows, ls, wantClosed, field) ==
    IF i > Len(rows) THEN 0
    ELSE (IF InBucket(ls, rows[i], wantClosed) THEN rows[i][field] ELSE 0)
         + BucketSum(i + 1, rows, ls, wantClosed, field)

\* the value of the analysis memo for a non-null localStructure
analysisOf(ls) ==
    LET rows == legAnalysis(ls)
    IN  [legAnalysis |-> rows,
         totals |-> TotalsReduce(initialTotals, 1, rows, ls),
         realizedPnl      |-> BucketSum(1, rows, ls, TRUE, "netPnl"),
         realizedPoints   |-> BucketSum(1, rows, ls, TRUE, "pnlPoints"),
         unrealizedPnl    |-> BucketSum(1, rows, ls, FALSE, "netPnl"),
         unrealizedPoints |-> BucketSum(1, rows, ls, FALSE, "pnlPoints")]

\* the legs for which the analysis constructs a BlackScholes: every leg
AnalysisKernelLegs(ls) == 1..Len(ls.legs)

----------------------------------------------------------------------------
(* Values the inputs are drawn from *)

Spots == {4, 6}              \* DAX spot
FetchedVolatilities == {0, 3}\* VDAX as fetched (0: the fetch of the index failed)
Multipliers == {1, 5, 25}

\* a leg as fetchStructures normalises it: no `enabled`, no live fields
Leg(id, optionType, strike, expiryDate, quantity, tradePrice, closingPrice, closingDate, iv, openingCommission, closingCommission) ==
    [id |-> id, optionType |-> optionType, strike |-> strike,
     expiryDate |-> expiryDate, quantity |-> quantity, tradePrice |-> tradePrice,
     closingPrice |-> closingPrice, closingDate |-> closingDate,
     impliedVolatility |-> iv, openingCommission |-> openingCommission,
     closingCommission |-> closingCommission, enabled |-> "undefined",
     currentPrice |-> None, currentIv |-> None]

LegOpenCall   == Leg("a", "Call", 4, 1, 1, 1, None, None, 1, Some(1), Some(1))
LegOpenPut    == Leg("b", "Put", 5, 3, -2, 2, Some(0), None, 2, None, Some(2))
LegClosedPut  == Leg("b", "Put", 5, 3, -2, 2, Some(3), Some(0), 2, None, Some(2))
LegClosedCall == Leg("a", "Call", 4, 1, 1, 1, Some(2), Some(0), 1, Some(1), Some(1))

\* a structure as fetchStructures normalises it; ids are positive, and a
\* structure not saved yet ('new') has the id 0
Structure(id, tag, legs, status, multiplier, closingDate, realizedPnl) ==
    [id |-> id, tag |-> tag, legs |-> legs, status |-> status,
     multiplier |-> multiplier, closingDate |-> closingDate,
     realizedPnl |-> realizedPnl]

\* the structures the detail view is opened on in the aggregation sessions
SessionStructures ==
    { Structure(1, "IC 1", <<LegOpenCall>>, "Active", 5, None, None),
      Structure(1, "IC 1", <<LegOpenCall, LegOpenPut>>, "Active", 5, None, None),
      Structure(1, "IC 1", <<LegOpenCall, LegClosedPut>>, "Active", 5, None, None),
      Structure(1, "IC 1", <<LegClosedPut, LegOpenCall>>, "Active", 1, None, None),
      Structure(1, "IC 1", <<LegClosedCall, LegClosedPut>>, "Active", 5, None, None),
      Structure(1, "IC 1", <<LegClosedCall, LegClosedPut>>, "Closed", 5, Some(0), Some(7)) }

\* the values a leg field is edited to (handleLegChange's callers)
LegEdits ==
    ({"enabled"} \X {"true", "false"})
    \cup ({"optionType"} \X {"Call", "Put"})
    \cup ({"strike"} \X {4, 5})
    \cup ({"expiryDate"} \X {1, 3})
    \cup ({"quantity"} \X {-2, 0, 1})
    \cup ({"tradePrice"} \X {1, 2})
    \cup ({"closingPrice"} \X {None, Some(0), Some(3)})
    \cup ({"closingDate"} \X {None, Some(1)})
    \cup ({"impliedVolatility"} \X {1, 2})
    \cup ({"openingCommission"} \X {Some(0), Some(1)})
    \cup ({"closingCommission"} \X {Some(0), Some(2)})

LegIds == {"a", "b"}

----------------------------------------------------------------------------
(* StructureDetailView: the editing session *)

\* the leg handleLegChange builds for the leg it matches
ChangedLeg(leg, field, value) ==
    LET newLeg == [leg EXCEPT ![field] = value]
    IN  IF field = "closingPrice" /\ value # None /\ ~IsSome(newLeg.closingDate)
        THEN [newLeg EXCEPT !.closingDate = Some(now)]
        ELSE newLeg

\* handleLegChange(id, field, value)
HandleLegChange(id, field, value) ==
    /\ IsSome(localStructure)
    /\ ~isReadOnly
    /\ steps < MaxSteps
    /\ steps' = steps + 1
    /\ localStructure' =
         Some([Get(localStructure) EXCEPT !.legs =
                 [i \in DOMAIN @ |-> IF @[i].id = id
                                       THEN ChangedLeg(@[i], field, value)
                                       ELSE @[i]]])
    /\ UNCHANGED <<storeVars, view, structureId, isReadOnly, isSaving, confirmClose, confirmVars,
                   simulatedSpot, isLiveMode, actions, equityVars, chartVars, refreshVars, deleteVars, serviceVars>>

\* the multiplier select: setLocalStructure({...localStructure, multiplier})
SetMultiplier(m) ==
    /\ IsSome(localStructure)
    /\ ~isReadOnly
    /\ steps < MaxSteps
    /\ steps' = steps + 1
    /\ localStructure' = Some([Get(localStructure) EXCEPT !.multiplier = m])
    /\ UNCHANGED <<storeVars, view, structureId, isReadOnly, isSaving, confirmClose, confirmVars,
                   simulatedSpot, isLiveMode, actions, equityVars, chartVars, refreshVars, deleteVars, serviceVars>>

\* handleSpotChange(val): the spot input, editable only outside live mode
HandleSpotChange(val) ==
    /\ view = "detail"
    /\ ~isLiveMode
    /\ steps < MaxSteps
    /\ steps' = steps + 1
    /\ simulatedSpot' = val
    /\ isLiveMode' = FALSE
    /\ UNCHANGED <<storeVars, view, structureId, localStructure, isReadOnly, isSaving,
                   confirmClose, confirmVars, actions, equityVars, chartVars, refreshVars, deleteVars, serviceVars>>

\* the LIVE / SIM toggle: isLiveMode ? setIsLiveMode(false) : resetToLive()
ToggleLive ==
    /\ view = "detail"
    /\ steps < MaxSteps
    /\ steps' = steps + 1
    /\ IF isLiveMode
       THEN isLiveMode' = FALSE /\ UNCHANGED simulatedSpot
       ELSE isLiveMode' = TRUE /\ simulatedSpot' = marketData.daxSpot
    /\ UNCHANGED <<storeVars, view, structureId, localStructure, isReadOnly, isSaving,
                   confirmClose, confirmVars, actions, equityVars, chartVars, refreshVars, deleteVars, serviceVars>>

----------------------------------------------------------------------------
(* portfolioStore: refreshDaxSpot *)

\* the leg refreshDaxSpot's set() builds for one leg of an Active structure
RefreshedLeg(leg, daxSpot, daxVolatility, riskFreeRate) ==
    IF IsSome(leg.closingDate) THEN leg
    ELSE LET timeToExpiry == getYearFraction(now, leg.expiryDate)
             currentIv    == IF daxVolatility > 0 THEN daxVolatility
                             ELSE leg.impliedVolatility
             currentPrice == IF timeToExpiry <= 0
                             THEN Intrinsic(leg.optionType, daxSpot, leg.strike)
                             ELSE bsPrice(leg.optionType, daxSpot, leg.strike,
                                          timeToExpiry, riskFreeRate, currentIv)
         IN  [leg EXCEPT !.currentPrice = Some(currentPrice),
                         !.currentIv = Some(currentIv)]

RefreshedStructure(structure, daxSpot, daxVolatility, riskFreeRate) ==
    IF structure.status = "Closed" THEN structure
    ELSE [structure EXCEPT !.legs =
            [i \in DOMAIN @ |-> RefreshedLeg(@[i], daxSpot, daxVolatility, riskFreeRate)]]

\* the legs for which refreshDaxSpot constructs a BlackScholes
RefreshKernelLegs(structure) ==
    IF structure.status = "Closed" THEN {}
    ELSE {i \in 1..Len(structure.legs) :
            /\ ~IsSome(structure.legs[i].closingDate)
            /\ getYearFraction(now, structure.legs[i].expiryDate) > 0}

\* refreshDaxSpot when fetchMarketData returned {daxSpot, daxVolatility}; the
\* detail view's effect then copies the spot into simulatedSpot in live mode
RefreshDaxSpot(daxSpot, daxVolatility) ==
    /\ steps < MaxSteps
    /\ steps' = steps + 1
    /\ structures' = [k \in DOMAIN structures |->
                        RefreshedStructure(structures[k], daxSpot, daxVolatility,
                                           marketData.riskFreeRate)]
    /\ marketData' = [marketData EXCEPT !.daxSpot = daxSpot,
                                        !.daxVolatility = daxVolatility]
    /\ simulatedSpot' = IF view = "detail" /\ isLiveMode THEN daxSpot ELSE simulatedSpot
    /\ isLoadingSpot' = FALSE
    /\ isPriceDelayed' = FALSE
    /\ UNCHANGED <<db, now, view, structureId, localStructure, isReadOnly, isSaving,
                   confirmClose, confirmVars, isLiveMode, actions, equityVars, chartVars,
                   inFlight, deleteVars, serviceVars>>

\* who calls refreshDaxSpot: the effect and its 30 second interval, and the
\* refresh buttons, which are disabled while isLoadingSpot
RefreshCallers == {"interval", "button"}

\* refreshDaxSpot up to its await: set({ isLoadingSpot: true })
RefreshStarts(caller) ==
    /\ steps < MaxSteps
    /\ steps' = steps + 1
    /\ caller = "button" => ~isLoadingSpot
    /\ isLoadingSpot' = TRUE
    /\ inFlight' = inFlight + 1
    /\ UNCHANGED <<storeVars, detailVars, actions, equityVars, chartVars, isPriceDelayed, deleteVars, serviceVars>>

\* refreshDaxSpot after its await: fetchMarketData gave data (Some) or gave
\* null or threw (None)
RefreshCompletes(result) ==
    /\ inFlight > 0
    /\ inFlight' = inFlight - 1
    /\ isLoadingSpot' = FALSE
    /\ IF IsSome(result)
       THEN LET data == Get(result)
            IN  /\ structures' = [k \in DOMAIN structures |->
                                    RefreshedStructure(structures[k], data.daxSpot,
                                                       data.daxVolatility,
                                                       marketData.riskFreeRate)]
                /\ marketData' = [marketData EXCEPT !.daxSpot = data.daxSpot,
                                                    !.daxVolatility = data.daxVolatility]
                /\ simulatedSpot' = IF view = "detail" /\ isLiveMode THEN data.daxSpot
                                    ELSE simulatedSpot
                /\ isPriceDelayed' = FALSE
       ELSE /\ isPriceDelayed' = TRUE
            /\ UNCHANGED <<structures, marketData, simulatedSpot>>
    /\ UNCHANGED <<db, now, view, structureId, localStructure, isReadOnly, isSaving,
                   confirmClose, confirmVars, isLiveMode, steps, actions, equityVars,
                   chartVars, deleteVars, serviceVars>>

\* the clock advances by a day
Tick ==
    /\ now < MaxNow
    /\ now' = now + 1
    /\ UNCHANGED <<db, structures, marketData, detailVars, steps, actions, equityVars,
                   chartVars, refreshVars, deleteVars, serviceVars>>

----------------------------------------------------------------------------
(* Aggregation sessions: the detail view is open on a fetched structure *)

DefaultMarketData == [daxSpot |-> 4, daxVolatility |-> 3, riskFreeRate |-> 1]

\* PayoffChart as it mounts: useState(20), useState(0)
ChartMounted ==
    /\ viewRange = 20
    /\ simTimePercent = 0

EquityIdle ==
    /\ closedStructures = <<>>
    /\ initialCapital = 0
    /\ sortedStructures = <<>>
    /\ cumulativePnl = 0
    /\ dataPoints = <<>>
    /\ eqPc = "idle"

InitAgg ==
    /\ \E s \in SessionStructures :
         /\ structures = <<s>>
         /\ db = <<s>>
         /\ localStructure = Some(s)
         /\ isReadOnly = (s.status = "Closed")
         /\ structureId = Some(s.id)
    /\ marketData = DefaultMarketData
    /\ now = 0
    /\ view = "detail"
    /\ isSaving = FALSE
    /\ confirmClose = FALSE
    /\ confirmDelete = FALSE
    /\ closeTimers = 0
    /\ deleteTimers = 0
    /\ isLoadingSpot = FALSE
    /\ isPriceDelayed = FALSE
    /\ inFlight = 0
    /\ isLoading = FALSE
    /\ deleteIds = {}
    /\ deleteState = "none"
    /\ retry = NoRetry
    /\ fetch = NoFetch
    /\ simulatedSpot = DefaultMarketData.daxSpot
    /\ isLiveMode = TRUE
    /\ steps = 0
    /\ actions = 0
    /\ EquityIdle
    /\ ChartMounted

NextAgg ==
    \/ \E id \in LegIds, e \in LegEdits : HandleLegChange(id, e[1], e[2])
    \/ \E m \in Multipliers : SetMultiplier(m)
    \/ \E val \in Spots : HandleSpotChange(val)
    \/ ToggleLive
    \/ \E daxSpot \in Spots, daxVolatility \in FetchedVolatilities :
         RefreshDaxSpot(daxSpot, daxVolatility)
    \/ Tick

SpecAgg == InitAgg /\ [][NextAgg]_vars

----------------------------------------------------------------------------
(* portfolioStore: persistence.  The backend is a sequence of structure    *)
(* rows, newest first, each with its leg rows.  A call's outcome (whether  *)
(* supabase.auth.getUser() yields a user, whether a request returns an     *)
(* error) is an input of the action that makes the call.                   *)

MaxActions == 5       \* navigation and persistence actions per session
StrikeStep == 25      \* addLeg rounds the spot to a multiple of 25
DefaultIv == 15       \* impliedVolatility of a leg addLeg creates

\* the settings a session runs with (types.ts: Settings)
settings == [defaultMultiplier |-> 5, defaultOpeningCommission |-> 1,
             defaultClosingCommission |-> 1]

\* the ids the backend gives the leg rows of one insert, by position
DbLegIds == <<"a", "b", "c", "d">>
\* the ids addLeg draws for the legs of the structure being edited, by position
LocalLegIds == <<"n1", "n2", "n3", "n4">>

\* the columns of a leg row: enabled, currentPrice and currentIv are not stored
LegColumns(leg) ==
    [leg EXCEPT !.enabled = "undefined", !.currentPrice = None, !.currentIv = None]

\* legsToInsert, with the ids the insert assigns
LegsToInsert(legs) ==
    [i \in 1..Len(legs) |-> [LegColumns(legs[i]) EXCEPT !.id = DbLegIds[i]]]

\* .update(columns).eq('id', id): the named columns of the rows with that id
UpdateRows(rows, id, columns) ==
    [k \in 1..Len(rows) |->
       IF rows[k].id = id
       THEN [f \in DOMAIN rows[k] |->
               IF f \in DOMAIN columns THEN columns[f] ELSE rows[k][f]]
       ELSE rows[k]]

\* fetchStructures, when it has a user and the query succeeds: the store's
\* list becomes the normalised rows
Normalized(rows) ==
    [k \in 1..Len(rows) |->
       [rows[k] EXCEPT !.legs = [i \in 1..Len(@) |-> LegColumns(@[i])]]]

\* fetchStructures returns without touching the store when there is no user
\* and when the query fails (the error is caught and logged)
FetchOutcomes == {"ok", "skipped"}

fetchStructures(rows, current, outcome) ==
    IF outcome = "ok" THEN Normalized(rows) ELSE current

UpdateOutcomes == {"ok", "noUser", "structError", "legsError"}

\* updateStructure(updatedStructure): the backend and the store it leaves, and
\* whether it threw
updateStructure(rows, current, updatedStructure, outcome, fetched) ==
    LET columns(legs) == [tag |-> updatedStructure.tag,
                          multiplier |-> updatedStructure.multiplier,
                          status |-> updatedStructure.status,
                          closingDate |-> updatedStructure.closingDate,
                          realizedPnl |-> updatedStructure.realizedPnl,
                          legs |-> legs]
        deleteLegs == columns(<<>>)
        insertLegs == columns(LegsToInsert(updatedStructure.legs))
    IN  CASE outcome = "noUser" ->
               [db |-> rows, structures |-> current, thrown |-> FALSE]
          [] outcome = "structError" ->
               [db |-> rows, structures |-> current, thrown |-> TRUE]
          [] outcome = "legsError" ->
               [db |-> UpdateRows(rows, updatedStructure.id, deleteLegs),
                structures |-> current, thrown |-> TRUE]
          [] OTHER ->
               LET written == UpdateRows(rows, updatedStructure.id, insertLegs)
               IN  [db |-> written,
                    structures |-> fetchStructures(written, current, fetched),
                    thrown |-> FALSE]

\* addStructure(newStructure)
addStructure(rows, current, newStructure, outcome, fetched) ==
    LET row(legs) == [id |-> Len(rows) + 1, tag |-> newStructure.tag, legs |-> legs,
                      status |-> "Active", multiplier |-> newStructure.multiplier,
                      closingDate |-> None, realizedPnl |-> None]
    IN  CASE outcome = "noUser" ->
               [db |-> rows, structures |-> current, thrown |-> FALSE]
          [] outcome = "structError" ->
               [db |-> rows, structures |-> current, thrown |-> TRUE]
          [] outcome = "legsError" ->
               [db |-> <<row(<<>>)>> \o rows, structures |-> current, thrown |-> TRUE]
          [] OTHER ->
               LET written == <<row(LegsToInsert(newStructure.legs))>> \o rows
               IN  [db |-> written,
                    structures |-> fetchStructures(written, current, fetched),
                    thrown |-> FALSE]

StatusOutcomes == {"ok", "error"}

\* closeStructure(structureId, realizedPnl)
closeStructure(rows, current, id, realizedPnl, outcome, fetched) ==
    LET changeRow == [status |-> "Closed",
                      closingDate |-> Some(now),
                      realizedPnl |-> Some(realizedPnl)]
    IN  IF outcome = "error"
        THEN [db |-> rows, structures |-> current, thrown |-> TRUE]
        ELSE LET written == UpdateRows(rows, id, changeRow)
             IN  [db |-> written,
                  structures |-> fetchStructures(written, current, fetched),
                  thrown |-> FALSE]

\* variant: the status set back to Active, the realized P&L and date kept
reopenStructureStatusOnly(rows, current, id, outcome, fetched) ==
    LET changeRow == [status |-> "Active"]
    IN  IF outcome = "error"
        THEN [db |-> rows, structures |-> current, thrown |-> TRUE]
        ELSE LET written == UpdateRows(rows, id, changeRow)
             IN  [db |-> written,
                  structures |-> fetchStructures(written, current, fetched),
                  thrown |-> FALSE]

\* reopenStructure(structureId)
reopenStructure(rows, current, id, outcome, fetched) ==
    LET changeRow == [status |-> "Active",
                      closingDate |-> None,
                      realizedPnl |-> None]
    IN  IF outcome = "error"
        THEN [db |-> rows, structures |-> current, thrown |-> TRUE]
        ELSE LET written == UpdateRows(rows, id, changeRow)
             IN  [db |-> written,
                  structures |-> fetchStructures(written, current, fetched),
                  thrown |-> FALSE]

DeleteOutcomes == {"ok", "noUser", "legsError", "structError"}

\* the rows that are left when the rows with these ids are deleted
WithoutIds(rows, ids) == SelectSeq(rows, LAMBDA s : s.id \notin ids)

\* deleteStructure(structureId): the leg rows are deleted first, then the
\* structure row; any failure is rethrown and leaves the store's list alone
deleteStructure(rows, current, id, outcome) ==
    CASE outcome \in {"noUser", "legsError"} ->
           [db |-> rows, structures |-> current, thrown |-> TRUE]
      [] outcome = "structError" ->
           [db |-> UpdateRows(rows, id, [legs |-> <<>>]),
            structures |-> current, thrown |-> TRUE]
      [] OTHER ->
           [db |-> WithoutIds(rows, {id}),
            structures |-> WithoutIds(current, {id}), thrown |-> FALSE]

\* the ids of the rows of a list
IdsOf(rows) == {rows[k].id : k \in 1..Len(rows)}

\* deleteStructures(structureIds) up to its first await; an empty list returns
\* at once.  The list view calls it with the selected structures
DeleteStructuresStarts(structureIds) ==
    /\ view = "list"
    /\ deleteState # "pending"
    /\ actions < MaxActions
    /\ actions' = actions + 1
    /\ deleteIds' = structureIds
    /\ IF structureIds = {}
       THEN deleteState' = "returned" /\ UNCHANGED isLoading
       ELSE deleteState' = "pending" /\ isLoading' = TRUE
    /\ UNCHANGED <<storeVars, detailVars, steps, equityVars, chartVars, refreshVars, serviceVars>>

\* deleteStructures after its awaits.  `deleted` are the rows the backend
\* deleted and returned from .delete().in('id', structureIds).select(): row
\* level security can keep any of the requested rows
DeleteStructuresCompletes(outcome, deleted) ==
    /\ deleteState = "pending"
    /\ deleted \subseteq deleteIds \cap IdsOf(db)
    /\ isLoading' = FALSE
    /\ CASE outcome \in {"noUser", "legsError"} ->
              /\ deleteState' = "thrown"
              /\ UNCHANGED <<db, structures>>
         [] outcome = "structError" ->
              /\ deleteState' = "thrown"
              /\ db' = [k \in 1..Len(db) |->
                          IF db[k].id \in deleteIds THEN [db[k] EXCEPT !.legs = <<>>]
                          ELSE db[k]]
              /\ UNCHANGED structures
         [] OTHER ->
              LET written == [k \in 1..Len(db) |->
                                IF db[k].id \in deleteIds THEN [db[k] EXCEPT !.legs = <<>>]
                                ELSE db[k]]
              IN  IF deleted = {}
                  THEN /\ deleteState' = "thrown"
                       /\ db' = written
                       /\ UNCHANGED structures
                  ELSE /\ deleteState' = "returned"
                       /\ db' = WithoutIds(written, deleted)
                       /\ structures' = WithoutIds(structures, deleteIds)
    /\ UNCHANGED <<marketData, now, detailVars, steps, actions, equityVars, chartVars,
                   refreshVars, deleteIds, serviceVars>>

----------------------------------------------------------------------------
(* The portfolio's lifecycle: list view, detail view, save, close, reopen *)

\* Math.round(x / StrikeStep) * StrikeStep, for x >= 0
RoundToStrikeStep(x) == ((2 * x + StrikeStep) \div (2 * StrikeStep)) * StrikeStep

\* tag.trim()
Trim(tag) == IF tag = " " THEN "" ELSE tag

Tags == {"", " ", "IC 3"}

\* what the mount effect builds for structureId 'new': no id and no status yet
NewLocalStructure ==
    Structure(0, "", <<>>, "undefined", settings.defaultMultiplier, None, None)

FindStructure(list, id) ==
    LET ss == {k \in 1..Len(list) : list[k].id = id}
    IN  IF ss = {} THEN None
        ELSE Some(list[CHOOSE k \in ss : \A j \in ss : k <= j])

\* the state of the detail view while it is not mounted
Unmounted ==
    /\ view' = "list"
    /\ structureId' = None
    /\ localStructure' = None
    /\ isReadOnly' = FALSE
    /\ isSaving' = FALSE
    /\ confirmClose' = FALSE
    /\ isLiveMode' = TRUE
    /\ simulatedSpot' = 0
    /\ confirmDelete' = FALSE
    /\ closeTimers' = 0
    /\ deleteTimers' = 0

\* setCurrentView('detail', id) and the effects of mounting StructureDetailView
OpenDetail(id) ==
    /\ view = "list"
    /\ actions < MaxActions
    /\ actions' = actions + 1
    /\ view' = "detail"
    /\ structureId' = Some(id)
    /\ IF id = 0
       THEN localStructure' = Some(NewLocalStructure) /\ isReadOnly' = FALSE
       ELSE LET structure == FindStructure(structures, id)
            IN  IF IsSome(structure)
                THEN /\ localStructure' = structure
                     /\ isReadOnly' = (Get(structure).status = "Closed")
                ELSE localStructure' = None /\ isReadOnly' = FALSE
    /\ isSaving' = FALSE
    /\ confirmClose' = FALSE
    /\ isLiveMode' = TRUE
    /\ simulatedSpot' = marketData.daxSpot
    /\ confirmDelete' = FALSE
    /\ closeTimers' = 0
    /\ deleteTimers' = 0
    /\ UNCHANGED <<storeVars, steps, equityVars, chartVars, refreshVars, deleteVars, serviceVars>>

\* setCurrentView('list') from the detail view
BackToList ==
    /\ view = "detail"
    /\ actions < MaxActions
    /\ actions' = actions + 1
    /\ Unmounted
    /\ UNCHANGED <<storeVars, steps, equityVars, chartVars, refreshVars, deleteVars, serviceVars>>

\* the tag input
SetTag(tag) ==
    /\ IsSome(localStructure)
    /\ ~isReadOnly
    /\ steps < MaxSteps
    /\ steps' = steps + 1
    /\ localStructure' = Some([Get(localStructure) EXCEPT !.tag = tag])
    /\ UNCHANGED <<storeVars, view, structureId, isReadOnly, isSaving, confirmClose, confirmVars,
                   simulatedSpot, isLiveMode, actions, equityVars, chartVars, refreshVars, deleteVars, serviceVars>>

\* addLeg()
AddLeg ==
    /\ IsSome(localStructure)
    /\ ~isReadOnly
    /\ Len(Get(localStructure).legs) < MaxLegs
    /\ steps < MaxSteps
    /\ steps' = steps + 1
    /\ LET defaultExpiry == now + 1
           strike == RoundToStrikeStep(simulatedSpot)
           initialFairValue == bsPrice("Call", simulatedSpot, strike,
                                       getTimeToExpiry(defaultExpiry),
                                       marketData.riskFreeRate, DefaultIv)
           newLeg == [id |-> LocalLegIds[Len(Get(localStructure).legs) + 1],
                      optionType |-> "Call", strike |-> strike,
                      expiryDate |-> defaultExpiry, quantity |-> 1,
                      tradePrice |-> initialFairValue, closingPrice |-> None,
                      closingDate |-> None, impliedVolatility |-> DefaultIv,
                      openingCommission |-> Some(settings.defaultOpeningCommission),
                      closingCommission |-> Some(settings.defaultClosingCommission),
                      enabled |-> "true", currentPrice |-> None, currentIv |-> None]
       IN  localStructure' = Some([Get(localStructure) EXCEPT !.legs = Append(@, newLeg)])
    /\ UNCHANGED <<storeVars, view, structureId, isReadOnly, isSaving, confirmClose, confirmVars,
                   simulatedSpot, isLiveMode, actions, equityVars, chartVars, refreshVars, deleteVars, serviceVars>>

\* handleSaveAction()
HandleSaveAction(outcome, fetched) ==
    /\ view = "detail"
    /\ IsSome(localStructure) /\ ~isReadOnly /\ ~isSaving
    /\ actions < MaxActions
    /\ actions' = actions + 1
    /\ LET ls == Get(localStructure)
       IN  IF Trim(ls.tag) = "" \/ Len(ls.legs) = 0
           THEN \* a validation message, nothing else
                UNCHANGED <<db, structures, detailVars>>
           ELSE LET res == IF ls.id # 0
                           THEN updateStructure(db, structures, ls, outcome, fetched)
                           ELSE addStructure(db, structures, ls, outcome, fetched)
                IN  /\ db' = res.db
                    /\ structures' = res.structures
                    /\ IF res.thrown THEN UNCHANGED detailVars ELSE Unmounted
    /\ UNCHANGED <<marketData, now, steps, equityVars, chartVars, refreshVars, deleteVars, serviceVars>>

\* localStructure.legs.some(l => no closing price, or a closing price of 0)
missingPrice(ls) ==
    \E i \in 1..Len(ls.legs) :
      ~IsSome(ls.legs[i].closingPrice) \/ Get(ls.legs[i].closingPrice) = 0

\* handleCloseAction(): a click on the close button
HandleCloseAction(updated, fetched1, closed, fetched2) ==
    /\ view = "detail"
    /\ IsSome(localStructure) /\ ~isReadOnly
    /\ actions < MaxActions
    /\ actions' = actions + 1
    /\ LET ls == Get(localStructure)
       IN  IF ~confirmClose
           THEN \* armed, and a timer set that nothing clears
                /\ confirmClose' = TRUE
                /\ closeTimers' = closeTimers + 1
                /\ UNCHANGED <<db, structures, view, structureId, localStructure,
                               isReadOnly, isSaving, simulatedSpot, isLiveMode,
                               confirmDelete, deleteTimers>>
           ELSE IF ls.id = 0 \/ isSaving
           THEN UNCHANGED <<db, structures, detailVars>>
           ELSE IF missingPrice(ls)
           THEN /\ confirmClose' = FALSE
                /\ UNCHANGED <<db, structures, view, structureId, localStructure,
                               isReadOnly, isSaving, simulatedSpot, isLiveMode,
                               confirmVars>>
           ELSE LET saved == updateStructure(db, structures, ls, updated, fetched1)
                    finalPnl == analysisOf(ls).totals.pnl
                    res == IF saved.thrown THEN saved
                           ELSE closeStructure(saved.db, saved.structures, ls.id,
                                               finalPnl, closed, fetched2)
                IN  /\ db' = res.db
                    /\ structures' = res.structures
                    /\ IF res.thrown THEN UNCHANGED detailVars ELSE Unmounted
    /\ UNCHANGED <<marketData, now, steps, equityVars, chartVars, refreshVars, deleteVars, serviceVars>>

\* setTimeout(() => setConfirmClose(false), 3000): the oldest pending timer
\* fires (the timers all wait 3 seconds, so they fire in the order they were set)
ConfirmCloseTimeout ==
    /\ view = "detail"
    /\ closeTimers > 0
    /\ closeTimers' = closeTimers - 1
    /\ confirmClose' = FALSE
    /\ UNCHANGED <<storeVars, view, structureId, localStructure, isReadOnly, isSaving,
                   simulatedSpot, isLiveMode, steps, actions, equityVars, chartVars,
                   confirmDelete, deleteTimers, refreshVars, deleteVars, serviceVars>>

\* handleDeleteAction(): a click on the delete button, which is rendered for a
\* structure that has an id
HandleDeleteAction(outcome) ==
    /\ view = "detail"
    /\ IsSome(localStructure) /\ ~isReadOnly
    /\ Get(localStructure).id # 0
    /\ actions < MaxActions
    /\ actions' = actions + 1
    /\ IF ~confirmDelete
       THEN /\ confirmDelete' = TRUE
            /\ deleteTimers' = deleteTimers + 1
            /\ UNCHANGED <<db, structures, view, structureId, localStructure,
                           isReadOnly, isSaving, confirmClose, simulatedSpot,
                           isLiveMode, closeTimers>>
       ELSE IF isSaving
       THEN UNCHANGED <<db, structures, detailVars>>
       ELSE LET res == deleteStructure(db, structures, Get(localStructure).id, outcome)
            IN  /\ db' = res.db
                /\ structures' = res.structures
                /\ IF res.thrown THEN UNCHANGED detailVars ELSE Unmounted
    /\ UNCHANGED <<marketData, now, steps, equityVars, chartVars, refreshVars, deleteVars, serviceVars>>

\* setTimeout(() => setConfirmDelete(false), 3000): the oldest pending timer fires
ConfirmDeleteTimeout ==
    /\ view = "detail"
    /\ deleteTimers > 0
    /\ deleteTimers' = deleteTimers - 1
    /\ confirmDelete' = FALSE
    /\ UNCHANGED <<storeVars, view, structureId, localStructure, isReadOnly, isSaving,
                   confirmClose, simulatedSpot, isLiveMode, steps, actions, equityVars,
                   chartVars, closeTimers, refreshVars, deleteVars, serviceVars>>

\* the reopen button: reopenStructure(localStructure.id)
ReopenStructure(outcome, fetched) ==
    /\ view = "detail"
    /\ IsSome(localStructure) /\ isReadOnly
    /\ actions < MaxActions
    /\ actions' = actions + 1
    /\ LET res == reopenStructure(db, structures, Get(localStructure).id, outcome, fetched)
       IN  db' = res.db /\ structures' = res.structures
    /\ UNCHANGED <<marketData, now, detailVars, steps, equityVars, chartVars, refreshVars, deleteVars, serviceVars>>

LifecycleEdits ==
    ({"closingPrice"} \X {None, Some(3)}) \cup ({"enabled"} \X {"false"})
        \cup ({"closingDate"} \X {None})

LifecycleLegIds == {"a", "b", "n1"}

InitialBackends ==
    { <<Structure(2, "IC 2", <<LegOpenCall>>, "Active", 5, None, None),
        Structure(1, "IC 1", <<LegClosedCall, LegClosedPut>>, "Closed", 5, Some(0), Some(7))>>,
      <<Structure(1, "IC 1", <<LegOpenCall, LegClosedPut>>, "Active", 25, None, None)>> }

Init ==
    /\ db \in InitialBackends
    /\ structures = Normalized(db)
    /\ marketData = DefaultMarketData
    /\ now = 0
    /\ view = "list"
    /\ structureId = None
    /\ localStructure = None
    /\ isReadOnly = FALSE
    /\ isSaving = FALSE
    /\ confirmClose = FALSE
    /\ confirmDelete = FALSE
    /\ closeTimers = 0
    /\ deleteTimers = 0
    /\ isLoadingSpot = FALSE
    /\ isPriceDelayed = FALSE
    /\ inFlight = 0
    /\ isLoading = FALSE
    /\ deleteIds = {}
    /\ deleteState = "none"
    /\ retry = NoRetry
    /\ fetch = NoFetch
    /\ isLiveMode = TRUE
    /\ simulatedSpot = 0
    /\ steps = 0
    /\ actions = 0
    /\ EquityIdle
    /\ ChartMounted

Next ==
    \/ \E id \in {0} \cup {structures[k].id : k \in 1..Len(structures)} : OpenDetail(id)
    \/ BackToList
    \/ \E tag \in Tags : SetTag(tag)
    \/ AddLeg
    \/ \E id \in LifecycleLegIds, e \in LifecycleEdits : HandleLegChange(id, e[1], e[2])
    \/ \E outcome \in UpdateOutcomes, fetched \in FetchOutcomes :
         HandleSaveAction(outcome, fetched)
    \/ \E updated \in UpdateOutcomes, fetched1 \in FetchOutcomes,
          closed \in StatusOutcomes, fetched2 \in FetchOutcomes :
         HandleCloseAction(updated, fetched1, closed, fetched2)
    \/ ConfirmCloseTimeout
    \/ \E outcome \in StatusOutcomes, fetched \in FetchOutcomes :
         ReopenStructure(outcome, fetched)
    \/ \E daxSpot \in Spots, daxVolatility \in FetchedVolatilities :
         RefreshDaxSpot(daxSpot, daxVolatility)

Spec == Init /\ [][Next]_vars

----------------------------------------------------------------------------
(* PortfolioAnalysis: the equity curve and the key metrics.  Amounts are in *)
(* cents; a tag is the sequence of its characters, so that its digits can  *)
(* be read.                                                                  *)

DigitValue == [c \in {"0", "1", "2", "3", "4", "5", "6", "7", "8", "9"} |->
                 CASE c = "0" -> 0 [] c = "1" -> 1 [] c = "2" -> 2 [] c = "3" -> 3
                   [] c = "4" -> 4 [] c = "5" -> 5 [] c = "6" -> 6 [] c = "7" -> 7
                   [] c = "8" -> 8 [] OTHER -> 9]

\* the length of the run of digits that ends the tag: /(\d+)$/
RECURSIVE DigitsAtEnd(_)
DigitsAtEnd(tag) ==
    IF tag = <<>> \/ tag[Len(tag)] \notin DOMAIN DigitValue THEN 0
    ELSE 1 + DigitsAtEnd(SubSeq(tag, 1, Len(tag) - 1))

\* parseInt of a sequence of digits
RECURSIVE parseInt(_)
parseInt(digits) ==
    IF digits = <<>> THEN 0
    ELSE 10 * parseInt(SubSeq(digits, 1, Len(digits) - 1)) + DigitValue[digits[Len(digits)]]

\* getSerial(tag)
getSerial(tag) ==
    LET n == DigitsAtEnd(tag)
    IN  IF n = 0 THEN -1 ELSE parseInt(SubSeq(tag, Len(tag) - n + 1, Len(tag)))

RECURSIVE MaxOf(_)
MaxOf(S) ==
    LET x == CHOOSE x \in S : TRUE
    IN  IF S = {x} THEN x ELSE Max(x, MaxOf(S \ {x}))

RECURSIVE MinOf(_)
MinOf(S) ==
    LET x == CHOOSE x \in S : TRUE
    IN  IF S = {x} THEN x ELSE Min(x, MinOf(S \ {x}))

\* new Date(d).getTime(): positive for every day of the model's clock, 0 being
\* what getEffectiveClosingDate returns for a structure without any date
getTime(d) == d + 1

\* getEffectiveClosingDate(structure)
getEffectiveClosingDate(structure) ==
    LET legClosingDates == {getTime(Get(structure.legs[i].closingDate)) :
                              i \in {j \in 1..Len(structure.legs) :
                                       IsSome(structure.legs[j].closingDate)}}
    IN  IF legClosingDates # {} THEN MaxOf(legClosingDates)
        ELSE IF IsSome(structure.closingDate) THEN getTime(Get(structure.closingDate))
        ELSE 0

\* the comparator of the sort
CompareClosed(a, b) ==
    LET serialA == getSerial(a.tag)
        serialB == getSerial(b.tag)
    IN  IF serialA # -1 /\ serialB # -1 THEN serialA - serialB
        ELSE getEffectiveClosingDate(a) - getEffectiveClosingDate(b)

IndexPermutations(n) ==
    {p \in [1..n -> 1..n] : \A i, j \in 1..n : i # j => p[i] # p[j]}

\* [...closedStructures].sort(comparator): the stable order when the comparator
\* orders the list consistently, any order otherwise (the order is then left
\* to the implementation)
SortResults(list) ==
    LET stable == {p \in IndexPermutations(Len(list)) :
                     \A i, j \in 1..Len(list) :
                       i < j => \/ CompareClosed(list[p[i]], list[p[j]]) < 0
                                \/ /\ CompareClosed(list[p[i]], list[p[j]]) = 0
                                   /\ p[i] < p[j]}
        chosen == IF stable # {} THEN stable ELSE IndexPermutations(Len(list))
    IN  {[i \in 1..Len(list) |-> list[p[i]]] : p \in chosen}

\* Number(initialCapital) || 0
safeInitialCapital == OrZero(initialCapital)

\* the value of the equityChartData memo, once computed
equityChartData == dataPoints

\* variant: the equity of a step taken from that step's realized P&L alone
NextPointNotCumulative(structure, points, cumulative) ==
    LET currentEquity == safeInitialCapital + OrZero(structure.realizedPnl)
        peakEquity == MaxOf({safeInitialCapital, currentEquity}
                              \cup {points[i].equity : i \in 1..Len(points)})
    IN  [tag |-> structure.tag, equity |-> currentEquity,
         drawdown |-> currentEquity - peakEquity,
         date |-> getEffectiveClosingDate(structure)]

\* the point one pass of the forEach pushes; `cumulative` is cumulativePnl
\* after the pass added the structure's realized P&L
NextPoint(structure, points, cumulative) ==
    LET currentEquity == safeInitialCapital + cumulative
        peakEquity == MaxOf({safeInitialCapital, currentEquity}
                              \cup {points[i].equity : i \in 1..Len(points)})
    IN  [tag |-> structure.tag, equity |-> currentEquity,
         drawdown |-> currentEquity - peakEquity,
         date |-> getEffectiveClosingDate(structure)]

\* equityChartData, up to the first pass of the forEach
StartEquity ==
    /\ eqPc = "idle"
    /\ IF Len(closedStructures) = 0
       THEN /\ dataPoints' = <<>>
            /\ eqPc' = "done"
            /\ UNCHANGED <<sortedStructures, cumulativePnl>>
       ELSE /\ sortedStructures' \in SortResults(closedStructures)
            /\ cumulativePnl' = 0
            /\ dataPoints' = <<[tag |-> <<>>, equity |-> safeInitialCapital,
                                drawdown |-> 0, date |-> 0]>>
            /\ eqPc' = "walk"
    /\ UNCHANGED <<storeVars, detailVars, steps, actions, closedStructures, initialCapital,
                   chartVars, refreshVars, deleteVars, serviceVars>>

\* variant: a walk that ends before the last structure
WalkEquityStopsEarly ==
    /\ eqPc = "walk"
    /\ LET index == Len(dataPoints)
           structure == sortedStructures[index]
           cumulative == cumulativePnl + OrZero(structure.realizedPnl)
       IN  /\ cumulativePnl' = cumulative
           /\ dataPoints' = Append(dataPoints, NextPoint(structure, dataPoints, cumulative))
           /\ eqPc' = IF index >= Len(sortedStructures) - 1 THEN "done" ELSE "walk"
    /\ UNCHANGED <<storeVars, detailVars, steps, actions, closedStructures,
                   initialCapital, sortedStructures, chartVars, refreshVars, deleteVars, serviceVars>>

\* one pass of sortedStructures.forEach
WalkEquity ==
    /\ eqPc = "walk"
    /\ LET index == Len(dataPoints)
           structure == sortedStructures[index]
           cumulative == cumulativePnl + OrZero(structure.realizedPnl)
       IN  /\ cumulativePnl' = cumulative
           /\ dataPoints' = Append(dataPoints, NextPoint(structure, dataPoints, cumulative))
           /\ eqPc' = IF index = Len(sortedStructures) THEN "done" ELSE "walk"
    /\ UNCHANGED <<storeVars, detailVars, steps, actions, closedStructures,
                   initialCapital, sortedStructures, chartVars, refreshVars, deleteVars, serviceVars>>

\* variant: the drawdown of the last point
maxDrawdownOfLastPoint(points) ==
    IF Len(points) > 1 THEN points[Len(points)].drawdown ELSE 0

\* keyMetrics.maxDrawdown
maxDrawdown(points) ==
    IF Len(points) > 1
    THEN MinOf({0} \cup {points[i].drawdown : i \in 1..Len(points)})
    ELSE 0

\* keyMetrics: the closed structures with a realized P&L above and below 0
winningTrades == SelectSeq(closedStructures, LAMBDA s : OrZero(s.realizedPnl) > 0)

losingTrades == SelectSeq(closedStructures, LAMBDA s : OrZero(s.realizedPnl) < 0)

\* trades.reduce((acc, s) => acc + (s.realizedPnl || 0), 0)
RECURSIVE SumRealized(_)
SumRealized(trades) ==
    IF trades = <<>> THEN 0
    ELSE SumRealized(SubSeq(trades, 1, Len(trades) - 1)) + OrZero(trades[Len(trades)].realizedPnl)

grossProfit == SumRealized(winningTrades)

grossLoss == Abs(SumRealized(losingTrades))

\* a quotient is kept as its numerator and denominator; Infinity is its own value
Quotient(n, d) == [infinite |-> FALSE, num |-> n, den |-> d]

Infinity == [infinite |-> TRUE, num |-> 1, den |-> 0]

\* variant: no losses reported as a profit factor of 0
profitFactorZeroWithoutLoss ==
    IF grossLoss > 0 THEN Quotient(grossProfit, grossLoss) ELSE Quotient(0, 1)

\* keyMetrics.profitFactor
profitFactor ==
    IF grossLoss > 0 THEN Quotient(grossProfit, grossLoss) ELSE Infinity

EquityTag1  == <<"I", "C", " ", "1">>
EquityTag2  == <<"I", "C", " ", "2">>
EquityTag10 == <<"I", "C", " ", "1", "0">>
EquityTagNoSerial == <<"H", "e", "d", "g", "e">>

EquityPool ==
    { Structure(1, EquityTag1, <<>>, "Closed", 5, Some(2), Some(-12050)),
      Structure(2, EquityTag2, <<LegClosedCall>>, "Closed", 5, Some(1), Some(20000)),
      Structure(3, EquityTagNoSerial, <<LegClosedPut, LegOpenCall>>, "Closed", 1, Some(1), Some(-3000)),
      Structure(4, EquityTag10, <<>>, "Closed", 5, None, None),
      Structure(6, EquityTagNoSerial, <<>>, "Closed", 1, Some(2), Some(0)),
      Structure(5, EquityTag2, <<LegOpenCall>>, "Active", 5, None, None) }

InitialCapitals == {None, Some(1000000)}

\* the lists of distinct structures of the pool, up to MaxClosed long
Portfolios ==
    UNION {{s \in [1..n -> EquityPool] : \A i, j \in 1..n : i # j => s[i] # s[j]} :
             n \in 0..MaxClosed}

InitEquity ==
    /\ structures \in Portfolios
    /\ db = structures
    /\ closedStructures = SelectSeq(structures, LAMBDA s : s.status = "Closed")
    /\ initialCapital \in InitialCapitals
    /\ marketData = DefaultMarketData
    /\ now = 0
    /\ view = "analysis"
    /\ structureId = None
    /\ localStructure = None
    /\ isReadOnly = FALSE
    /\ isSaving = FALSE
    /\ confirmClose = FALSE
    /\ confirmDelete = FALSE
    /\ closeTimers = 0
    /\ deleteTimers = 0
    /\ isLoadingSpot = FALSE
    /\ isPriceDelayed = FALSE
    /\ inFlight = 0
    /\ isLoading = FALSE
    /\ deleteIds = {}
    /\ deleteState = "none"
    /\ retry = NoRetry
    /\ fetch = NoFetch
    /\ isLiveMode = TRUE
    /\ simulatedSpot = 0
    /\ steps = 0
    /\ actions = 0
    /\ sortedStructures = <<>>
    /\ cumulativePnl = 0
    /\ dataPoints = <<>>
    /\ eqPc = "idle"
    /\ ChartMounted

NextEquity == StartEquity \/ WalkEquity

SpecEquity == InitEquity /\ [][NextEquity]_vars

----------------------------------------------------------------------------
(* PayoffChart: the price grid (chartPoints) and the payoff series (data). *)
(* The grid holds fractions of a price unit (a 150th of the domain, half a *)
(* unit around a strike), so a price of the chart is a whole number of     *)
(* 1/PriceScale of a price unit and the arithmetic is exact.               *)

pointCount == 150

PriceScale == 2000 * pointCount

\* a price of a leg or of the market, in the units of the grid
Scaled(price) == price * PriceScale

\* Math.floor and Math.ceil of a grid price, in whole price units
Floor(x) == x \div PriceScale

Ceil(x) == 0 - ((0 - x) \div PriceScale)

\* the props StructureDetailView passes: the legs not disabled, and the
\* simulated spot as marketData.daxSpot
ChartLegs(ls) == SelectSeq(ls.legs, LAMBDA l : l.enabled # "false")

\* minStrike - padding and maxStrike + padding, on the grid
PaddedDomain(legs, currentSpot, range) ==
    LET strikes == {Scaled(legs[i].strike) : i \in 1..Len(legs)}
        spot == Scaled(currentSpot)
        minStrike == MinOf(strikes \cup {spot})
        maxStrike == MaxOf(strikes \cup {spot})
        spread == IF maxStrike - minStrike < spot \div 100 THEN spot \div 100
                  ELSE maxStrike - minStrike
        minPadding == spread \div 10
        maxPadding == Max(spread * 5, (spot * 3) \div 10)
        \* (maxPadding - minPadding) * (viewRange / 100): both paddings are whole
        \* hundreds of grid units
        padding == minPadding + ((maxPadding - minPadding) \div 100) * range
    IN  [low |-> minStrike - padding, high |-> maxStrike + padding]

\* basePoints: pointCount + 1 points from xMin to xMax
BasePoints(xMin, xMax) ==
    LET step == ((xMax - xMin) * PriceScale) \div pointCount
    IN  [i \in 1..(pointCount + 1) |-> Scaled(xMin) + (i - 1) * step]

\* criticalPoints: the spot, and each strike with the half units around it
RECURSIVE CriticalPoints(_, _)
CriticalPoints(legs, currentSpot) ==
    IF legs = <<>> THEN <<Scaled(currentSpot)>>
    ELSE LET s == Scaled(legs[Len(legs)].strike)
         IN  CriticalPoints(SubSeq(legs, 1, Len(legs) - 1), currentSpot)
               \o <<s, s - PriceScale \div 2, s + PriceScale \div 2>>

\* variant: every point kept
UniquePointsKeepingAll(allPoints) == allPoints

\* uniquePoints: the first point, and each point more than 0.1 above the
\* point before it in allPoints
UniquePoints(allPoints) ==
    LET marked == [i \in 1..Len(allPoints) |->
                     [point |-> allPoints[i],
                      pushed |-> i = 1 \/ 10 * (allPoints[i] - allPoints[i - 1]) > PriceScale]]
        pushed == SelectSeq(marked, LAMBDA m : m.pushed)
    IN  [j \in 1..Len(pushed) |-> pushed[j].point]

\* chartPoints for the given legs, spot and viewRange
ChartPointsOf(legs, currentSpot, range) ==
    IF Len(legs) = 0 THEN <<>>
    ELSE LET domain == PaddedDomain(legs, currentSpot, range)
             xMin == Floor(domain.low)
             xMax == Ceil(domain.high)
             allPoints == SortSeq(SelectSeq(BasePoints(xMin, xMax)
                                              \o CriticalPoints(legs, currentSpot),
                                            LAMBDA q : q >= Scaled(xMin) /\ q <= Scaled(xMax)),
                                  LAMBDA a, b : a < b)
         IN  UniquePoints(allPoints)

\* the chartPoints memo of the mounted chart
chartPoints ==
    IF localStructure = None THEN <<>>
    ELSE ChartPointsOf(ChartLegs(Get(localStructure)), simulatedSpot, viewRange)

\* times of the payoff series are in hundredths of the clock's unit, so that
\* a percentage of a time is a whole number
TimeScale == 100

\* earliestExpiryDate
earliestExpiryDate(legs) ==
    IF Len(legs) = 0 THEN now
    ELSE MinOf({legs[i].expiryDate : i \in 1..Len(legs)})

\* isExpiringLeg: within 24 hours of the earliest expiry
isExpiringLeg(leg, earliest) == Abs(leg.expiryDate - earliest) < 1

\* variant: every leg at its intrinsic value
ValAtExpiryIntrinsicOnly(leg, spot, earliest, riskFreeRate) ==
    Intrinsic(leg.optionType, spot, Scaled(leg.strike))

\* valAtExpiry of a leg at a price of the grid
ValAtExpiry(leg, spot, earliest, riskFreeRate) ==
    IF isExpiringLeg(leg, earliest)
    THEN Intrinsic(leg.optionType, spot, Scaled(leg.strike))
    ELSE LET t_remaining == TimeScale * getYearFraction(earliest, leg.expiryDate)
         IN  bsPrice(leg.optionType, spot, Scaled(leg.strike), t_remaining,
                     riskFreeRate, leg.impliedVolatility)

\* variant: the put priced as the call
ValSimulatedCallOnly(leg, spot, earliest, riskFreeRate, percent) ==
    LET t_now_to_expiry == getYearFraction(now, earliest)
        t_elapsed == t_now_to_expiry * percent
        t_total_leg == TimeScale * getYearFraction(now, leg.expiryDate)
        t_remaining_sim == Max(0, t_total_leg - t_elapsed)
    IN  IF 1000 * t_remaining_sim < TimeScale
        THEN Intrinsic(leg.optionType, spot, Scaled(leg.strike))
        ELSE callPrice(spot, Scaled(leg.strike), t_remaining_sim, riskFreeRate,
                       leg.impliedVolatility)

\* valSimulated of a leg at a price of the grid
ValSimulated(leg, spot, earliest, riskFreeRate, percent) ==
    LET t_now_to_expiry == getYearFraction(now, earliest)
        t_elapsed == t_now_to_expiry * percent
        t_total_leg == TimeScale * getYearFraction(now, leg.expiryDate)
        t_remaining_sim == Max(0, t_total_leg - t_elapsed)
    IN  IF 1000 * t_remaining_sim < TimeScale
        THEN Intrinsic(leg.optionType, spot, Scaled(leg.strike))
        ELSE bsPrice(leg.optionType, spot, Scaled(leg.strike), t_remaining_sim,
                     riskFreeRate, leg.impliedVolatility)

\* variant: the short branch without the absolute value
LegPayoffShortSigned(value, leg) ==
    IF leg.quantity > 0 THEN (value - Scaled(leg.tradePrice)) * leg.quantity
    ELSE (Scaled(leg.tradePrice) - value) * leg.quantity

\* what a leg adds to pnlAtFirstExpiry or pnlSimulated: the long and the
\* short branch
LegPayoff(value, leg) ==
    IF leg.quantity > 0 THEN (value - Scaled(leg.tradePrice)) * leg.quantity
    ELSE (Scaled(leg.tradePrice) - value) * Abs(leg.quantity)

\* legs.forEach: pnlAtFirstExpiry and pnlSimulated over the first i legs
RECURSIVE PayoffOverLegs(_, _, _, _, _, _)
PayoffOverLegs(i, legs, spot, earliest, riskFreeRate, percent) ==
    IF i = 0 THEN [pnlAtFirstExpiry |-> 0, pnlSimulated |-> 0]
    ELSE LET acc == PayoffOverLegs(i - 1, legs, spot, earliest, riskFreeRate, percent)
         IN  [pnlAtFirstExpiry |->
                acc.pnlAtFirstExpiry
                  + LegPayoff(ValAtExpiry(legs[i], spot, earliest, riskFreeRate), legs[i]),
              pnlSimulated |->
                acc.pnlSimulated
                  + LegPayoff(ValSimulated(legs[i], spot, earliest, riskFreeRate, percent),
                              legs[i])]

\* variant: a Closed structure charted from its legs like an Active one
DataFromLegsAlways(points, legs, riskFreeRate, multiplier, structureStatus, realizedPnl, percent) ==
    [k \in 1..Len(points) |->
       LET pnl == PayoffOverLegs(Len(legs), legs, points[k], earliestExpiryDate(legs),
                                 riskFreeRate, percent)
       IN  [spot |-> points[k],
            pnlExpiry |-> pnl.pnlAtFirstExpiry * multiplier,
            pnlSim |-> pnl.pnlSimulated * multiplier]]

\* data: the payoff series over the grid `points`
DataOf(points, legs, riskFreeRate, multiplier, structureStatus, realizedPnl, percent) ==
    IF Len(points) = 0 THEN <<>>
    ELSE IF structureStatus = "Closed" /\ realizedPnl # None
    THEN [k \in 1..Len(points) |->
            [spot |-> points[k],
             pnlExpiry |-> Scaled(Get(realizedPnl)),
             pnlSim |-> Scaled(Get(realizedPnl))]]
    ELSE [k \in 1..Len(points) |->
            LET pnl == PayoffOverLegs(Len(legs), legs, points[k], earliestExpiryDate(legs),
                                      riskFreeRate, percent)
            IN  [spot |-> points[k],
                 pnlExpiry |-> pnl.pnlAtFirstExpiry * multiplier,
                 pnlSim |-> pnl.pnlSimulated * multiplier]]

\* structureStatus as StructureDetailView passes it
ChartStatus(ls) == IF ls.status = "undefined" THEN "Active" ELSE ls.status

\* the data memo of the mounted chart
data ==
    IF localStructure = None THEN <<>>
    ELSE LET ls == Get(localStructure)
         IN  DataOf(chartPoints, ChartLegs(ls), marketData.riskFreeRate, ls.multiplier,
                    ChartStatus(ls), ls.realizedPnl, simTimePercent)

\* the positions of the two sliders
ViewRanges == {0, 20, 100}

SimTimePercents == {0, 50, 100}

\* the zoom slider; the chart shows it for a structure that is not Closed
SetViewRange(range) ==
    /\ view = "detail"
    /\ localStructure # None
    /\ ChartStatus(Get(localStructure)) # "Closed"
    /\ range # viewRange
    /\ viewRange' = range
    /\ UNCHANGED <<storeVars, detailVars, steps, actions, equityVars, simTimePercent, refreshVars, deleteVars, serviceVars>>

\* the time slider
SetSimTimePercent(percent) ==
    /\ view = "detail"
    /\ localStructure # None
    /\ ChartStatus(Get(localStructure)) # "Closed"
    /\ percent # simTimePercent
    /\ simTimePercent' = percent
    /\ UNCHANGED <<storeVars, detailVars, steps, actions, equityVars, viewRange, refreshVars, deleteVars, serviceVars>>

PayoffLegNear == Leg("a", "Call", 100, 1, 1, 3, None, None, 2, Some(1), Some(1))
PayoffLegFar  == Leg("b", "Put", 120, 3, -2, 5, None, None, 1, None, Some(2))
PayoffLegFlat == Leg("c", "Call", 110, 1, 0, 4, Some(6), Some(0), 2, Some(1), None)

\* the structures a charting session opens
PayoffStructures ==
    { Structure(1, "IC 1", <<PayoffLegNear>>, "Active", 5, None, None),
      Structure(2, "IC 2", <<PayoffLegNear, PayoffLegFar>>, "Active", 5, None, None),
      Structure(3, "IC 3", <<PayoffLegFar, PayoffLegFlat>>, "Active", 1, None, None),
      Structure(4, "IC 4", <<PayoffLegNear, PayoffLegFar>>, "Closed", 5, Some(0), Some(7)) }

PayoffSpots == {100, 130}

PayoffEdits == ({"enabled"} \X {"false"}) \cup ({"quantity"} \X {-1, 2})

PayoffLegIds == {"a", "b"}

InitPayoff ==
    /\ \E s \in PayoffStructures :
         /\ structures = <<s>>
         /\ db = <<s>>
         /\ localStructure = Some(s)
         /\ isReadOnly = (s.status = "Closed")
         /\ structureId = Some(s.id)
    /\ marketData = [DefaultMarketData EXCEPT !.daxSpot = 100]
    /\ now = 0
    /\ view = "detail"
    /\ isSaving = FALSE
    /\ confirmClose = FALSE
    /\ confirmDelete = FALSE
    /\ closeTimers = 0
    /\ deleteTimers = 0
    /\ isLoadingSpot = FALSE
    /\ isPriceDelayed = FALSE
    /\ inFlight = 0
    /\ isLoading = FALSE
    /\ deleteIds = {}
    /\ deleteState = "none"
    /\ retry = NoRetry
    /\ fetch = NoFetch
    /\ simulatedSpot = 100
    /\ isLiveMode = TRUE
    /\ steps = 0
    /\ actions = 0
    /\ EquityIdle
    /\ ChartMounted

NextPayoff ==
    \/ \E range \in ViewRanges : SetViewRange(range)
    \/ \E percent \in SimTimePercents : SetSimTimePercent(percent)
    \/ ToggleLive
    \/ \E val \in PayoffSpots : HandleSpotChange(val)
    \/ \E id \in PayoffLegIds, e \in PayoffEdits : HandleLegChange(id, e[1], e[2])
    \/ \E daxSpot \in PayoffSpots, daxVolatility \in FetchedVolatilities :
         RefreshDaxSpot(daxSpot, daxVolatility)
    \/ Tick

SpecPayoff == InitPayoff /\ [][NextPayoff]_vars

----------------------------------------------------------------------------
(* Vocabulary of the claims about the aggregators.  The expected values are *)
(* written from the specification (sections 4.2, 4.3), with sums over sets  *)
(* of leg positions, independently of the reduces above.                   *)

RECURSIVE SumFn(_)
SumFn(f) ==
    IF DOMAIN f = {} THEN 0
    ELSE LET x == CHOOSE x \in DOMAIN f : TRUE
         IN  f[x] + SumFn([y \in DOMAIN f \ {x} |-> f[y]])

\* the structures the program holds: the store's and the one being edited
HeldStructures ==
    {structures[k] : k \in 1..Len(structures)}
    \cup (IF IsSome(localStructure) THEN {Get(localStructure)} ELSE {})

LegIsEnabled(leg) == leg.enabled # "false"
LegHasClosingPrice(leg) == leg.closingPrice # None /\ leg.closingPrice # Some(0)
EnabledLegs(st) == {i \in 1..Len(st.legs) : LegIsEnabled(st.legs[i])}
OpenEnabledLegs(st) == {i \in EnabledLegs(st) : ~LegHasClosingPrice(st.legs[i])}
ClosedEnabledLegs(st) == {i \in EnabledLegs(st) : LegHasClosingPrice(st.legs[i])}

\* Position Valuator: the frozen closing price of a closed leg, else the
\* kernel's price for the time remaining
PositionValue(leg, spot, rate, vol) ==
    IF LegHasClosingPrice(leg) THEN Get(leg.closingPrice)
    ELSE bsPrice(leg.optionType, spot, leg.strike, leg.expiryDate - now, rate, vol)

ExpectedPoints(leg, price) == (price - leg.tradePrice) * leg.quantity
ExpectedCommissions(leg) ==
    (OrZero(leg.openingCommission) + OrZero(leg.closingCommission))
    * (IF leg.quantity < 0 THEN 0 - leg.quantity ELSE leg.quantity)
ExpectedNet(leg, price, multiplier) ==
    ExpectedPoints(leg, price) * multiplier - ExpectedCommissions(leg)

\* the list view values a leg at the store's spot and the leg's own volatility
ListValue(leg) ==
    PositionValue(leg, marketData.daxSpot, marketData.riskFreeRate, leg.impliedVolatility)

\* the detail view values a leg at the simulated spot and the volatility in use
DetailValue(ls, leg) ==
    PositionValue(leg, simulatedSpot, marketData.riskFreeRate, volatilityToUse(ls, leg))

\* C1: for every Active structure the net P&L is the sum over the enabled legs
\* of (currentPrice - tradePrice) * quantity * multiplier - (openingCommission +
\* closingCommission) * |quantity| and totalPoints is the sum over the enabled
\* legs of (currentPrice - tradePrice) * quantity, both in
\* calculatePnlInfoForStructure and in the detail view's analysis.totals
\* (pnl, pnlPoints, gross, comm).
C1_NetPnlIsSumOverEnabledLegs ==
    /\ \A st \in HeldStructures :
         st.status = "Active" =>
           LET info == calculatePnlInfoForStructure(st, marketData)
           IN  /\ info.netPnl =
                    SumFn([i \in EnabledLegs(st) |->
                             ExpectedNet(st.legs[i], ListValue(st.legs[i]), st.multiplier)])
               /\ info.totalPoints =
                    SumFn([i \in EnabledLegs(st) |->
                             ExpectedPoints(st.legs[i], ListValue(st.legs[i]))])
    /\ IsSome(localStructure) =>
         LET ls == Get(localStructure)
             t  == analysisOf(ls).totals
         IN  /\ t.pnl = SumFn([i \in EnabledLegs(ls) |->
                          ExpectedNet(ls.legs[i], DetailValue(ls, ls.legs[i]), ls.multiplier)])
             /\ t.pnlPoints = SumFn([i \in EnabledLegs(ls) |->
                          ExpectedPoints(ls.legs[i], DetailValue(ls, ls.legs[i]))])
             /\ t.gross = SumFn([i \in EnabledLegs(ls) |->
                          ExpectedPoints(ls.legs[i], DetailValue(ls, ls.legs[i]))
                          * ls.multiplier])
             /\ t.comm = SumFn([i \in EnabledLegs(ls) |-> ExpectedCommissions(ls.legs[i])])

\* C1 witness: an edited Active structure with a disabled leg and an enabled
\* short leg that pays commissions, whose net P&L is not zero
C1_Witness ==
    /\ IsSome(localStructure)
    /\ steps > 0
    /\ LET ls == Get(localStructure)
       IN  /\ ls.status = "Active"
           /\ Len(ls.legs) = 2
           /\ \E i \in 1..2 : ls.legs[i].enabled = "false"
           /\ \E i \in 1..2 : /\ ls.legs[i].enabled # "false"
                              /\ ls.legs[i].quantity < 0
                              /\ ExpectedCommissions(ls.legs[i]) > 0
           /\ analysisOf(ls).totals.pnl # 0
           /\ calculatePnlInfoForStructure(ls, marketData).netPnl # 0

ListGreek(leg, field) ==
    bsGreeks(leg.optionType, marketData.daxSpot, leg.strike, leg.expiryDate - now,
             marketData.riskFreeRate, leg.impliedVolatility)[field] * leg.quantity

DetailGreek(ls, leg, field) ==
    bsGreeks(leg.optionType, simulatedSpot, leg.strike, leg.expiryDate - now,
             marketData.riskFreeRate, volatilityToUse(ls, leg))[field] * leg.quantity

\* both views price with the same spot and the same volatility
SameInputs(ls) ==
    /\ simulatedSpot = marketData.daxSpot
    /\ \A i \in 1..Len(ls.legs) : volatilityToUse(ls, ls.legs[i]) = ls.legs[i].impliedVolatility

GreeksOverOpenEnabledLegs ==
    /\ \A st \in HeldStructures :
         LET g == calculateTotalGreeks(st, marketData)
         IN  \A f \in {"delta", "gamma", "theta", "vega"} :
               g[f] = SumFn([i \in OpenEnabledLegs(st) |-> ListGreek(st.legs[i], f)])
    /\ IsSome(localStructure) =>
         LET ls == Get(localStructure)
             t  == analysisOf(ls).totals
         IN  /\ t.gamma = SumFn([i \in OpenEnabledLegs(ls) |-> DetailGreek(ls, ls.legs[i], "gamma")])
             /\ t.thetaPoints = SumFn([i \in OpenEnabledLegs(ls) |-> DetailGreek(ls, ls.legs[i], "theta")])
             /\ t.vegaPoints = SumFn([i \in OpenEnabledLegs(ls) |-> DetailGreek(ls, ls.legs[i], "vega")])
             \* a closed leg still counts in the points and P&L totals
             /\ t.pnlPoints =
                  SumFn([i \in OpenEnabledLegs(ls) |->
                           ExpectedPoints(ls.legs[i], DetailValue(ls, ls.legs[i]))])
                  + SumFn([i \in ClosedEnabledLegs(ls) |->
                           ExpectedPoints(ls.legs[i], Get(ls.legs[i].closingPrice))])

\* C2 (as amended): the Greeks are the sum of {delta, gamma, theta, vega} *
\* quantity over the legs that are enabled and open, a closed leg adding nothing
\* to a Greek while it counts in the points total; for the same legs, spot,
\* rate, volatility and time the two aggregators give the same gamma,
\* theta-in-points and vega-in-points, and the detail view's delta is 100 times
\* the list aggregator's delta.
C2_GreeksAgreeDeltaScaled ==
    /\ GreeksOverOpenEnabledLegs
    /\ IsSome(localStructure) =>
         LET ls == Get(localStructure)
             t  == analysisOf(ls).totals
             g  == calculateTotalGreeks(ls, marketData)
         IN  /\ t.delta = 100 * SumFn([i \in OpenEnabledLegs(ls) |->
                                         DetailGreek(ls, ls.legs[i], "delta")])
             /\ SameInputs(ls) =>
                  /\ t.gamma = g.gamma
                  /\ t.thetaPoints = g.theta
                  /\ t.vegaPoints = g.vega
                  /\ t.delta = 100 * g.delta

\* C2 as claimed: ... and the two aggregators give the same delta, gamma,
\* theta-in-points and vega-in-points for the same legs, spot, rate, volatility
\* and time.
C2_GreeksAgree ==
    /\ GreeksOverOpenEnabledLegs
    /\ IsSome(localStructure) =>
         LET ls == Get(localStructure)
             t  == analysisOf(ls).totals
             g  == calculateTotalGreeks(ls, marketData)
         IN  SameInputs(ls) =>
               /\ t.delta = g.delta
               /\ t.gamma = g.gamma
               /\ t.thetaPoints = g.theta
               /\ t.vegaPoints = g.vega

\* C2 witness: after an edit, a structure with an enabled closed leg whose own
\* Greeks are not zero beside an enabled open leg, both views on the same inputs
C2_Witness ==
    /\ IsSome(localStructure)
    /\ steps > 0
    /\ LET ls == Get(localStructure)
       IN  /\ SameInputs(ls)
           /\ \E i \in ClosedEnabledLegs(ls) :
                /\ DetailGreek(ls, ls.legs[i], "delta") # 0
                /\ DetailGreek(ls, ls.legs[i], "vega") # 0
                /\ ExpectedPoints(ls.legs[i], Get(ls.legs[i].closingPrice)) # 0
           /\ OpenEnabledLegs(ls) # {}
           /\ calculateTotalGreeks(ls, marketData).delta # 0
           /\ calculateTotalGreeks(ls, marketData).vega # 0

\* every aggregate the views derive from a structure being edited
AggregatesOf(ls) ==
    LET a == analysisOf(ls)
    IN  <<a.totals, a.realizedPnl, a.realizedPoints, a.unrealizedPnl,
          a.unrealizedPoints, calculatePnlInfoForStructure(ls, marketData),
          calculateTotalGreeks(ls, marketData)>>

\* a step that changes nothing but fields of legs that are disabled
DisabledLegEdit ==
    /\ IsSome(localStructure) /\ IsSome(localStructure')
    /\ localStructure' # localStructure
    /\ LET ls == Get(localStructure)
           ms == Get(localStructure')
       IN  /\ [ms EXCEPT !.legs = ls.legs] = ls
           /\ Len(ms.legs) = Len(ls.legs)
           /\ \A i \in 1..Len(ls.legs) :
                ms.legs[i] # ls.legs[i] =>
                  /\ ls.legs[i].enabled = "false"
                  /\ ms.legs[i].enabled = "false"
                  /\ ms.legs[i].id = ls.legs[i].id
    /\ UNCHANGED <<structures, marketData, now, simulatedSpot, isLiveMode, refreshVars, deleteVars, serviceVars>>

AllLegsDisabled(st) ==
    /\ Len(st.legs) > 0
    /\ \A i \in 1..Len(st.legs) : st.legs[i].enabled = "false"

DisabledLegsCountNowhere ==
    \A st \in HeldStructures :
      AllLegsDisabled(st) =>
        /\ calculatePnlInfoForStructure(st, marketData) = [netPnl |-> 0, totalPoints |-> 0]
        /\ calculateTotalGreeks(st, marketData) = [delta |-> 0, gamma |-> 0, theta |-> 0, vega |-> 0]
        /\ LET t == analysisOf(st).totals
           IN  \A f \in DOMAIN t : t[f] = 0

\* C3: disabled legs are excluded from every aggregate: changing any field of a
\* disabled leg (the market, the clock and the pricing mode staying as they
\* are) changes no aggregated value, and a structure whose legs are all
\* disabled has net P&L, total points and all four Greeks exactly 0.
C3_DisabledLegsExcluded ==
    /\ []DisabledLegsCountNowhere
    /\ [][DisabledLegEdit =>
            AggregatesOf(Get(localStructure')) = AggregatesOf(Get(localStructure))]_vars

\* C3 witness: two legs, both disabled, the last edit having changed a field
\* of a disabled leg whose own P&L is not zero
C3_Witness ==
    /\ IsSome(localStructure)
    /\ steps >= 2
    /\ LET ls == Get(localStructure)
       IN  /\ Len(ls.legs) = 2
           /\ AllLegsDisabled(ls)
           /\ \E i \in 1..2 : ExpectedNet(ls.legs[i], DetailValue(ls, ls.legs[i]), ls.multiplier) # 0
           /\ \E i \in 1..2 : DetailGreek(ls, ls.legs[i], "delta") # 0

\* C4 as claimed: a leg whose closingPrice is set and non-zero is valued at
\* exactly that closingPrice in every P&L computation, and no BlackScholes
\* evaluation is performed for it by the list aggregators, the detail-view
\* analysis or the live refresh.
C4_ClosedLegNeverPriced ==
    /\ \A st \in HeldStructures :
         \A i \in 1..Len(st.legs) :
           LegHasClosingPrice(st.legs[i]) =>
             /\ ListCurrentPrice(st.legs[i], marketData) = Get(st.legs[i].closingPrice)
             /\ i \notin PnlKernelLegs(st)
             /\ i \notin GreeksKernelLegs(st)
    /\ \A k \in 1..Len(structures) :
         \A i \in 1..Len(structures[k].legs) :
           LegHasClosingPrice(structures[k].legs[i]) => i \notin RefreshKernelLegs(structures[k])
    /\ IsSome(localStructure) =>
         LET ls == Get(localStructure)
         IN  \A i \in 1..Len(ls.legs) :
               LegHasClosingPrice(ls.legs[i]) =>
                 /\ legAnalysis(ls)[i].currentPrice = Get(ls.legs[i].closingPrice)
                 /\ i \notin AnalysisKernelLegs(ls)

\* C5: in the detail-view analysis every enabled leg is in exactly one bucket,
\* realized if closed and unrealized if open, so realizedPnl + unrealizedPnl =
\* totals.pnl and realizedPoints + unrealizedPoints = totals.pnlPoints; disabled
\* legs are in neither bucket.
C5_BucketsPartitionEnabledLegs ==
    IsSome(localStructure) =>
      LET ls == Get(localStructure)
          a  == analysisOf(ls)
          net(i) == ExpectedNet(ls.legs[i], DetailValue(ls, ls.legs[i]), ls.multiplier)
          pts(i) == ExpectedPoints(ls.legs[i], DetailValue(ls, ls.legs[i]))
      IN  /\ a.realizedPnl + a.unrealizedPnl = a.totals.pnl
          /\ a.realizedPoints + a.unrealizedPoints = a.totals.pnlPoints
          /\ a.realizedPnl = SumFn([i \in ClosedEnabledLegs(ls) |-> net(i)])
          /\ a.unrealizedPnl = SumFn([i \in OpenEnabledLegs(ls) |-> net(i)])
          /\ a.realizedPoints = SumFn([i \in ClosedEnabledLegs(ls) |-> pts(i)])
          /\ a.unrealizedPoints = SumFn([i \in OpenEnabledLegs(ls) |-> pts(i)])

\* C5 witness: a disabled leg whose own P&L is not zero beside an enabled closed
\* leg, and (another state) an enabled closed leg beside an enabled open leg
C5_Witness ==
    /\ IsSome(localStructure)
    /\ LET ls == Get(localStructure)
           a  == analysisOf(ls)
       IN  /\ Len(ls.legs) = 2
           /\ \E i \in 1..2 :
                /\ ls.legs[i].enabled = "false"
                /\ ExpectedNet(ls.legs[i], DetailValue(ls, ls.legs[i]), ls.multiplier) # 0
                /\ ExpectedPoints(ls.legs[i], DetailValue(ls, ls.legs[i])) # 0
           /\ ClosedEnabledLegs(ls) # {}
           /\ a.realizedPnl # 0
           /\ a.realizedPoints # 0

\* C6: for every Closed structure calculatePnlInfoForStructure returns the
\* stored realizedPnl as netPnl, whatever the legs and the market snapshot, and
\* totalPoints is still the sum over the enabled legs of
\* (currentPrice - tradePrice) * quantity.
C6_ClosedReportsRealizedPnl ==
    \A st \in HeldStructures :
      st.status = "Closed" =>
        LET info == calculatePnlInfoForStructure(st, marketData)
        IN  /\ info.netPnl = Get(st.realizedPnl)
            /\ info.totalPoints =
                 SumFn([i \in EnabledLegs(st) |->
                          ExpectedPoints(st.legs[i], ListValue(st.legs[i]))])

\* C6 witness: after a refresh changed the market, a Closed structure whose
\* legs alone would give another net P&L than the stored one, and whose points
\* total is not zero
C6_Witness ==
    /\ steps > 0
    /\ marketData # DefaultMarketData
    /\ \E k \in 1..Len(structures) :
         LET st == structures[k]
         IN  /\ st.status = "Closed"
             /\ SumFn([i \in EnabledLegs(st) |->
                        ExpectedNet(st.legs[i], ListValue(st.legs[i]), st.multiplier)])
                # Get(st.realizedPnl)
             /\ calculatePnlInfoForStructure(st, marketData).totalPoints # 0

----------------------------------------------------------------------------
(* Claims about the lifecycle *)

StoredStructures ==
    {db[k] : k \in 1..Len(db)} \cup {structures[k] : k \in 1..Len(structures)}

\* lemma: wherever it is stored, a structure that is not Active has a realizedPnl
ClosedHasRealizedPnl ==
    \A st \in StoredStructures : st.status # "Active" => st.realizedPnl # None

ClosedStructuresArePriced ==
    \A st \in StoredStructures :
      st.status = "Closed" =>
        \A i \in 1..Len(st.legs) :
          st.legs[i].closingPrice # None /\ st.legs[i].closingPrice # Some(0)

\* a click on the close button while the confirmation is armed, on a saved
\* structure one of whose legs has no closing price, or a closing price of 0
CloseAttemptWithMissingPrice ==
    /\ confirmClose
    /\ IsSome(localStructure)
    /\ Get(localStructure).id # 0
    /\ \E i \in 1..Len(Get(localStructure).legs) :
         \/ Get(localStructure).legs[i].closingPrice = None
         \/ Get(localStructure).legs[i].closingPrice = Some(0)
    /\ \E updated \in UpdateOutcomes, fetched1 \in FetchOutcomes,
          closed \in StatusOutcomes, fetched2 \in FetchOutcomes :
         HandleCloseAction(updated, fetched1, closed, fetched2)

\* C7 as claimed: after any sequence of save, close and reopen actions every
\* structure whose status is Closed has a non-null, non-zero closingPrice on
\* every leg; a close attempt on a structure with a leg lacking such a price is
\* refused: it reaches neither updateStructure nor closeStructure (the backend
\* and the store stay as they are) and the status stays Active.
C7_ClosedOnlyWithAllClosingPrices ==
    /\ []ClosedStructuresArePriced
    /\ [][CloseAttemptWithMissingPrice =>
            /\ UNCHANGED <<db, structures>>
            /\ view' = "detail"
            /\ ~confirmClose']_vars

\* the fields of a leg, and of a structure, that the backend stores
PersistedLeg(leg) ==
    <<leg.id, leg.optionType, leg.strike, leg.expiryDate, leg.quantity, leg.tradePrice,
      leg.closingPrice, leg.closingDate, leg.impliedVolatility, leg.openingCommission,
      leg.closingCommission>>

PersistedLegs(st) == [i \in 1..Len(st.legs) |-> PersistedLeg(st.legs[i])]

PersistedStructure(st) ==
    <<st.id, st.tag, st.status, st.multiplier, st.closingDate, st.realizedPnl,
      PersistedLegs(st)>>

\* the reopen button, on a structure the store and the backend hold as Closed,
\* with the update and the reload that follows both succeeding
SuccessfulReopen ==
    /\ IsSome(localStructure)
    /\ \E k \in 1..Len(structures) :
         structures[k].id = Get(localStructure).id /\ structures[k].status = "Closed"
    /\ \E k \in 1..Len(db) :
         db[k].id = Get(localStructure).id /\ db[k].status = "Closed"
    /\ ReopenStructure("ok", "ok")

\* what a reopen leaves of the list `before` in the list `after`: the reopened
\* structure Active with realizedPnl and closing date cleared, its tag,
\* multiplier and legs and every other structure as they were
ReopenedList(before, after, id) ==
    /\ Len(after) = Len(before)
    /\ \A k \in 1..Len(before) :
         IF before[k].id = id
         THEN /\ after[k].id = id
              /\ after[k].status = "Active"
              /\ after[k].realizedPnl = None
              /\ after[k].closingDate = None
              /\ after[k].tag = before[k].tag
              /\ after[k].multiplier = before[k].multiplier
              /\ after[k].legs = before[k].legs
         ELSE after[k] = before[k]

\* after the reopen the list aggregator computes the net P&L from the legs
ReopenedPnlIsRecomputed(after, id) ==
    \A k \in 1..Len(after) :
      after[k].id = id =>
        calculatePnlInfoForStructure(after[k], marketData).netPnl =
          SumFn([i \in EnabledLegs(after[k]) |->
                   ExpectedNet(after[k].legs[i], ListValue(after[k].legs[i]),
                               after[k].multiplier)])

\* the store holds every structure as the backend stores it, no leg carrying a
\* live price or volatility
MirrorsBackend(list, rows) ==
    /\ Len(list) = Len(rows)
    /\ \A k \in 1..Len(rows) :
         /\ PersistedStructure(list[k]) = PersistedStructure(rows[k])
         /\ \A i \in 1..Len(list[k].legs) :
              list[k].legs[i].currentPrice = None /\ list[k].legs[i].currentIv = None

----------------------------------------------------------------------------
(* Claims about the equity curve *)

\* the sum of the realized P&L of the first k structures walked
RECURSIVE RealizedUpTo(_)
RealizedUpTo(k) ==
    IF k = 0 THEN 0
    ELSE RealizedUpTo(k - 1)
         + (IF sortedStructures[k].realizedPnl = None THEN 0
            ELSE Get(sortedStructures[k].realizedPnl))

CapitalAtStart == IF initialCapital = None THEN 0 ELSE Get(initialCapital)

\* the highest of the initial capital and the equities of the points 0..k
PeakUpTo(k) ==
    CHOOSE m \in {CapitalAtStart} \cup {dataPoints[i + 1].equity : i \in 0..k} :
      \A e \in {CapitalAtStart} \cup {dataPoints[i + 1].equity : i \in 0..k} : m >= e

IsPermutationOf(a, b) ==
    /\ Len(a) = Len(b)
    /\ \E p \in [1..Len(a) -> 1..Len(a)] :
         /\ \A i, j \in 1..Len(a) : i # j => p[i] # p[j]
         /\ \A i \in 1..Len(a) : a[i] = b[p[i]]

\* C9: for every ordered list of closed structures the equity of the k-th
\* emitted point is the initial capital plus the sum of the realizedPnl of the
\* first k structures in that order, and its drawdown is that equity minus the
\* maximum of the initial capital and all equities up to and including the
\* k-th; one structure with realizedPnl -120.50 and initial capital 10000 gives
\* the equity series [10000, 9879.50] and the drawdown series [0, -120.50]
\* (amounts in cents).
C9_EquityIsCapitalPlusRunningSum ==
    /\ eqPc # "idle" /\ dataPoints # <<>> =>
         /\ IsPermutationOf(sortedStructures, closedStructures)
         /\ dataPoints[1].equity = CapitalAtStart
         /\ dataPoints[1].drawdown = 0
         /\ \A k \in 1..(Len(dataPoints) - 1) :
              /\ dataPoints[k + 1].equity = CapitalAtStart + RealizedUpTo(k)
              /\ dataPoints[k + 1].drawdown = dataPoints[k + 1].equity - PeakUpTo(k)
    /\ eqPc = "done" => Len(dataPoints) = IF closedStructures = <<>> THEN 0
                                           ELSE Len(closedStructures) + 1
    /\ ( /\ eqPc = "done"
         /\ Len(closedStructures) = 1
         /\ closedStructures[1].realizedPnl = Some(-12050)
         /\ initialCapital = Some(1000000) )
       => /\ [i \in 1..Len(dataPoints) |-> dataPoints[i].equity] = <<1000000, 987950>>
          /\ [i \in 1..Len(dataPoints) |-> dataPoints[i].drawdown] = <<0, -12050>>

\* C9 witness: three structures walked, a loss, then a gain that sets a new
\* peak, one structure without a realizedPnl, the capital not zero
C9_Witness ==
    /\ eqPc = "done"
    /\ Len(dataPoints) = 4
    /\ initialCapital # None
    /\ \E k \in 1..3 : sortedStructures[k].realizedPnl = None
    /\ \E k \in 2..4 : dataPoints[k].drawdown < 0
    /\ \E k \in 2..4 : dataPoints[k].equity > dataPoints[1].equity
    /\ dataPoints[4].equity # dataPoints[1].equity + OrZero(sortedStructures[3].realizedPnl)

\* C9 witness of the concrete scenario
C9_ScenarioReached ==
    /\ eqPc = "done"
    /\ Len(closedStructures) = 1
    /\ closedStructures[1].realizedPnl = Some(-12050)
    /\ initialCapital = Some(1000000)

\* C10: every drawdown value of the equity series is <= 0, and maxDrawdown is
\* the minimum drawdown value of the series, and 0 when the series has fewer
\* than two points.
C10_DrawdownNonPositive ==
    /\ \A i \in 1..Len(dataPoints) : dataPoints[i].drawdown <= 0
    /\ eqPc = "done" =>
         LET m == maxDrawdown(equityChartData)
         IN  IF Len(equityChartData) < 2 THEN m = 0
             ELSE /\ \E i \in 1..Len(equityChartData) : equityChartData[i].drawdown = m
                  /\ \A i \in 1..Len(equityChartData) : equityChartData[i].drawdown >= m

\* C10 witness: a finished series whose deepest drawdown is neither zero nor
\* the drawdown of its last point
C10_Witness ==
    /\ eqPc = "done"
    /\ Len(dataPoints) >= 3
    /\ maxDrawdown(equityChartData) < 0
    /\ dataPoints[Len(dataPoints)].drawdown # maxDrawdown(equityChartData)

\* the closed structures the sort received all carry a serial / one does not
AllHaveSerial == \A k \in 1..Len(closedStructures) : getSerial(closedStructures[k].tag) # -1

NoneHasSerial == \A k \in 1..Len(closedStructures) : getSerial(closedStructures[k].tag) = -1

SortedBySerial ==
    \A i, j \in 1..Len(sortedStructures) :
      i < j => getSerial(sortedStructures[i].tag) <= getSerial(sortedStructures[j].tag)

SortedByEffectiveDate ==
    \A i, j \in 1..Len(sortedStructures) :
      i < j => getEffectiveClosingDate(sortedStructures[i])
                 <= getEffectiveClosingDate(sortedStructures[j])

EquityIsSorted == eqPc # "idle" /\ closedStructures # <<>>

\* lemma: the order is as described when the tags are uniform, all with a
\* serial or none with one
EquityOrderWhenUniform ==
    EquityIsSorted =>
      /\ IsPermutationOf(sortedStructures, closedStructures)
      /\ AllHaveSerial => SortedBySerial
      /\ NoneHasSerial => SortedByEffectiveDate

\* C11: the equity series orders the closed structures by the integer suffix
\* of their tag, ascending, when every closed structure's tag ends in digits;
\* when at least one closed structure has no such suffix the whole list is
\* ordered by effective closing date, ascending.
C11_EquityOrder ==
    EquityIsSorted =>
      /\ IsPermutationOf(sortedStructures, closedStructures)
      /\ AllHaveSerial => SortedBySerial
      /\ ~AllHaveSerial => SortedByEffectiveDate

\* the series starts with the synthetic point and has, after it, one point
\* for each closed structure, in the order of the sort
OnePointPerStructure ==
    /\ Len(dataPoints) = Len(closedStructures) + 1
    /\ dataPoints[1].tag = <<>>
    /\ dataPoints[1].equity = CapitalAtStart
    /\ dataPoints[1].drawdown = 0
    /\ IsPermutationOf(sortedStructures, closedStructures)
    /\ \A k \in 1..Len(closedStructures) :
         /\ dataPoints[k + 1].tag = sortedStructures[k].tag
         /\ dataPoints[k + 1].date = getEffectiveClosingDate(sortedStructures[k])

\* C12 as claimed: for every n >= 0 closed structures the equity series has
\* exactly n + 1 points, a synthetic starting point with the initial capital
\* and drawdown 0 and then one point per closed structure, each once.
C12_PointsPerStructure ==
    eqPc = "done" => OnePointPerStructure

\* C12 (as amended): for every n >= 1 closed structures the equity series has
\* exactly n + 1 points, a synthetic starting point with the initial capital
\* and drawdown 0 and then one point per closed structure, each once; with no
\* closed structure the series is empty.
C12_PointsPerStructureUnlessEmpty ==
    eqPc = "done" =>
      IF closedStructures = <<>> THEN dataPoints = <<>> ELSE OnePointPerStructure

\* C12 witness: a finished series of two closed structures, computed beside
\* an Active structure that has no point
C12_Witness ==
    /\ eqPc = "done"
    /\ Len(closedStructures) = 2
    /\ Len(structures) = 3
    /\ Len(dataPoints) = 3
    /\ \E k \in 1..3 : structures[k].status = "Active"

\* the positions of the closed structures with a realized P&L above 0, below
\* 0, and of exactly 0
ClosedWinners ==
    {k \in 1..Len(closedStructures) :
       closedStructures[k].realizedPnl # None /\ Get(closedStructures[k].realizedPnl) > 0}

ClosedLosers ==
    {k \in 1..Len(closedStructures) :
       closedStructures[k].realizedPnl # None /\ Get(closedStructures[k].realizedPnl) < 0}

ClosedFlat ==
    {k \in 1..Len(closedStructures) : closedStructures[k].realizedPnl = Some(0)}

ExpectedGrossProfit ==
    SumFn([k \in ClosedWinners |-> Get(closedStructures[k].realizedPnl)])

ExpectedGrossLoss ==
    Abs(SumFn([k \in ClosedLosers |-> Get(closedStructures[k].realizedPnl)]))

\* C13: profitFactor is the sum of the realizedPnl of the closed structures
\* with realizedPnl > 0 divided by the absolute value of the sum of those with
\* realizedPnl < 0 whenever that gross loss is not zero, and infinite exactly
\* when the gross loss is zero; with only losing trades it is 0, and a
\* structure with realizedPnl 0 is neither a winner nor a loser.
C13_ProfitFactor ==
    /\ ExpectedGrossLoss # 0 =>
         /\ ~profitFactor.infinite
         /\ profitFactor.den # 0
         /\ profitFactor.num * ExpectedGrossLoss = ExpectedGrossProfit * profitFactor.den
    /\ profitFactor.infinite <=> ExpectedGrossLoss = 0
    /\ (ClosedWinners = {} /\ ClosedLosers # {}) =>
         ~profitFactor.infinite /\ profitFactor.num = 0
    /\ \A k \in 1..Len(closedStructures) :
         OrZero(closedStructures[k].realizedPnl) = 0 =>
           /\ \A i \in 1..Len(winningTrades) : winningTrades[i] # closedStructures[k]
           /\ \A i \in 1..Len(losingTrades) : losingTrades[i] # closedStructures[k]

\* C13 witness: a winner, a loser and a structure with realizedPnl 0, the
\* profit factor a proper quotient
C13_Witness ==
    /\ eqPc = "done"
    /\ Len(closedStructures) = 3
    /\ ClosedWinners # {}
    /\ ClosedLosers # {}
    /\ ClosedFlat # {}
    /\ ~profitFactor.infinite
    /\ profitFactor.num > profitFactor.den

----------------------------------------------------------------------------
(* Claims about the payoff chart *)

\* the chart is drawn for at least one leg
ChartHasLegs == localStructure # None /\ Len(ChartLegs(Get(localStructure))) > 0

\* C14: for every non-empty leg list, spot > 0 and zoom in [0,100] the price
\* grid the payoff sampler returns is strictly increasing, and any two
\* consecutive points of it are more than 0.1 price units apart.
C14_GridStrictlyIncreasing ==
    ChartHasLegs =>
      LET points == chartPoints
      IN  /\ Len(points) >= 1
          /\ \A k \in 1..(Len(points) - 1) :
               /\ points[k] < points[k + 1]
               /\ 10 * (points[k + 1] - points[k]) > PriceScale

\* C14 witness: a grid of many points from which points closer than 0.1 to
\* their predecessor were collapsed
C14_Witness ==
    /\ ChartHasLegs
    /\ viewRange = 100
    /\ LET points == chartPoints
       IN  /\ Len(points) > pointCount
           /\ Len(points) < pointCount + 1 + 3 * Len(ChartLegs(Get(localStructure))) + 1

\* the padded domain of the mounted chart
ChartDomain == PaddedDomain(ChartLegs(Get(localStructure)), simulatedSpot, viewRange)

\* the whole price units between xMin and xMax
ChartWidth == Ceil(ChartDomain.high) - Floor(ChartDomain.low)

\* lemma: the grid starts at or below the padded domain, and ends at or above
\* it when its base points are more than 0.1 apart
GridCoversWhenWide ==
    ChartHasLegs =>
      LET points == chartPoints
      IN  /\ points[1] <= ChartDomain.low
          /\ 10 * ChartWidth > pointCount => points[Len(points)] >= ChartDomain.high

\* C15: for every non-empty leg list, spot > 0 and zoom in [0,100] the grid
\* covers the padded domain: its first point is <= minStrike - padding and its
\* last point is >= maxStrike + padding, with minStrike and maxStrike over the
\* strikes and the spot, spread = max(maxStrike - minStrike, 1% of spot) and
\* padding from 10% of spread at zoom 0 to max(5 * spread, 30% of spot) at
\* full zoom.
C15_GridCoversPaddedDomain ==
    ChartHasLegs =>
      LET points == chartPoints
      IN  /\ points[1] <= ChartDomain.low
          /\ points[Len(points)] >= ChartDomain.high

\* the legs the chart is given, and the first of their expiries
ChartedLegs == ChartLegs(Get(localStructure))

FirstExpiry == MinOf({ChartedLegs[i].expiryDate : i \in 1..Len(ChartedLegs)})

\* the value the specification gives a leg on the first expiry, at a price of
\* the grid
ExpectedValueAtFirstExpiry(leg, first, price) ==
    IF leg.expiryDate = first
    THEN IF leg.optionType = "Call" THEN Max(0, price - Scaled(leg.strike))
         ELSE Max(0, Scaled(leg.strike) - price)
    ELSE bsPrice(leg.optionType, price, Scaled(leg.strike),
                 TimeScale * (leg.expiryDate - first),
                 marketData.riskFreeRate, leg.impliedVolatility)

ExpectedExpiryPayoff(legs, first, price) ==
    Get(localStructure).multiplier
      * SumFn([i \in 1..Len(legs) |->
                 (ExpectedValueAtFirstExpiry(legs[i], first, price)
                    - Scaled(legs[i].tradePrice)) * legs[i].quantity])

ChartIsActive ==
    /\ ChartHasLegs
    /\ ChartStatus(Get(localStructure)) = "Active"

\* C16: for an Active structure the expiry payoff at a sampled price values a
\* leg expiring at the earliest leg expiry at its intrinsic value and a later
\* leg at the kernel value over the time from the earliest expiry to its own;
\* the payoff is multiplier * sum of (value - tradePrice) * quantity, long or
\* short.
C16_ExpiryPayoff ==
    ChartIsActive =>
      LET series == data
          points == chartPoints
          legs == ChartedLegs
          first == FirstExpiry
      IN  /\ Len(series) = Len(points)
          /\ \A k \in 1..Len(series) :
               /\ series[k].spot = points[k]
               /\ series[k].pnlExpiry = ExpectedExpiryPayoff(legs, first, points[k])

\* a moved chart of a long leg expiring first and a short leg expiring later
C16_Witness ==
    /\ ChartIsActive
    /\ viewRange # 20
    /\ \E i, j \in 1..Len(ChartedLegs) :
         /\ ChartedLegs[i].expiryDate = FirstExpiry
         /\ ChartedLegs[i].quantity > 0
         /\ ChartedLegs[j].expiryDate > FirstExpiry
         /\ ChartedLegs[j].quantity < 0
    /\ Len(chartPoints) > pointCount

ChartIsClosed ==
    /\ ChartHasLegs
    /\ ChartStatus(Get(localStructure)) = "Closed"

\* C17: for a Closed structure every sampled price carries the frozen
\* realizedPnl as expiry payoff and as simulated payoff, whatever the legs,
\* the market snapshot and the simulated time.
C17_ClosedIsFlat ==
    ChartIsClosed =>
      LET ls == Get(localStructure)
          points == chartPoints
      IN  \A percent \in SimTimePercents, rate \in {0, marketData.riskFreeRate} :
            LET series == DataOf(points, ChartLegs(ls), rate, ls.multiplier,
                                 ChartStatus(ls), ls.realizedPnl, percent)
            IN  /\ Len(series) = Len(points)
                /\ \A k \in 1..Len(series) :
                     /\ series[k].spot = points[k]
                     /\ series[k].pnlExpiry = Scaled(Get(ls.realizedPnl))
                     /\ series[k].pnlSim = Scaled(Get(ls.realizedPnl))

\* a Closed structure charted around a simulated spot the user moved
C17_Witness ==
    /\ ChartIsClosed
    /\ simulatedSpot # marketData.daxSpot
    /\ Len(data) > pointCount

\* the leg with the sign of its quantity reversed
Reversed(leg) == [leg EXCEPT !.quantity = 0 - leg.quantity]

NoPnl == [netPnl |-> 0, totalPoints |-> 0]

\* pointsPnl and commissions of one leg alone, in the detail view and in the
\* list, are those of the reversed leg with pointsPnl negated
SignSymmetric(ls, leg) ==
    LET long  == LegAnalysis(ls, leg)
        short == LegAnalysis(ls, Reversed(leg))
        listLong  == PnlStep(NoPnl, leg, ls, marketData)
        listShort == PnlStep(NoPnl, Reversed(leg), ls, marketData)
    IN  /\ short.currentPrice = long.currentPrice
        /\ short.pnlPoints = 0 - long.pnlPoints
        /\ short.commissions = long.commissions
        /\ short.netPnl + long.netPnl = 0 - 2 * long.commissions
        /\ listShort.totalPoints = 0 - listLong.totalPoints
        /\ listLong.netPnl - listShort.netPnl = 2 * ls.multiplier * listLong.totalPoints

\* the two values the chart gives a leg at a price of the grid
ChartValues(leg, first, price) ==
    { ValAtExpiry(leg, price, first, marketData.riskFreeRate),
      ValSimulated(leg, price, first, marketData.riskFreeRate, simTimePercent) }

\* C20: for a single leg at a fixed current price and trade price, replacing
\* quantity q by -q negates pointsPnl exactly and leaves the commissions
\* unchanged; the chart's two branches (long: (value - tradePrice) * quantity,
\* short: (tradePrice - value) * |quantity|) give (value - tradePrice) *
\* quantity for every quantity, 0 included.
C20_SignSymmetry ==
    localStructure # None =>
      LET ls == Get(localStructure)
          points == chartPoints
          legs == ChartedLegs
          first == IF Len(legs) = 0 THEN now ELSE FirstExpiry
      IN  /\ \A i \in 1..Len(ls.legs) : SignSymmetric(ls, ls.legs[i])
          /\ \A i \in 1..Len(legs), k \in 1..Len(points) :
               \A value \in ChartValues(legs[i], first, points[k]) :
                 \A leg \in {legs[i], Reversed(legs[i])} :
                   LegPayoff(value, leg) = (value - Scaled(leg.tradePrice)) * leg.quantity

\* a leg the user turned from two short into one short that has points, next
\* to a leg of quantity 0, on a chart with a grid
C20_Witness ==
    /\ ChartHasLegs
    /\ Len(chartPoints) > pointCount
    /\ \E i, j \in 1..Len(ChartedLegs) :
         /\ ChartedLegs[i].quantity = -1
         /\ LegAnalysis(Get(localStructure), ChartedLegs[i]).pnlPoints # 0
         /\ ChartedLegs[j].quantity = 0

----------------------------------------------------------------------------
(* Claims about the live refresh and the valuation of expired legs *)

\* the volatility the specification gives the live valuation of a leg
LiveVolatility(leg, daxVolatility) ==
    IF daxVolatility # 0 THEN daxVolatility ELSE leg.impliedVolatility

\* the refreshed leg carries the live valuation of the leg before
ValuedLive(before, after, daxSpot, daxVolatility, riskFreeRate) ==
    LET sigma == LiveVolatility(before, daxVolatility)
        T == before.expiryDate - now
    IN  /\ after.currentIv = Some(sigma)
        /\ after.currentPrice =
             Some(IF T <= 0 THEN Intrinsic(before.optionType, daxSpot, before.strike)
                  ELSE bsPrice(before.optionType, daxSpot, before.strike, T,
                               riskFreeRate, sigma))

\* the stored fields of a leg
StoredFields ==
    {"id", "optionType", "strike", "expiryDate", "quantity", "tradePrice",
     "closingPrice", "closingDate", "impliedVolatility", "openingCommission",
     "closingCommission", "enabled"}

\* the refresh kept every stored field of every leg, and every leg of a
\* Closed structure
RefreshKeepsStored(before, after) ==
    /\ Len(after) = Len(before)
    /\ \A k \in 1..Len(before) :
         /\ [after[k] EXCEPT !.legs = <<>>] = [before[k] EXCEPT !.legs = <<>>]
         /\ Len(after[k].legs) = Len(before[k].legs)
         /\ \A i \in 1..Len(before[k].legs) :
              \A f \in StoredFields : after[k].legs[i][f] = before[k].legs[i][f]
         /\ before[k].status = "Closed" => after[k].legs = before[k].legs

\* the refresh valued every leg of a structure not Closed that satisfies
\* `open`, a set of legs
RefreshValues(before, after, open, daxSpot, daxVolatility, riskFreeRate) ==
    \A k \in 1..Len(before) :
      before[k].status # "Closed" =>
        \A i \in 1..Len(before[k].legs) :
          before[k].legs[i] \in open =>
            ValuedLive(before[k].legs[i], after[k].legs[i], daxSpot, daxVolatility,
                       riskFreeRate)

\* the legs of the store
StoreLegs == UNION {{structures[k].legs[i] : i \in 1..Len(structures[k].legs)} :
                      k \in 1..Len(structures)}

\* lemma: the refresh keeps the stored fields, and values the legs that have
\* no closing date
RefreshValuesUndatedLegs ==
    [][\A daxSpot \in Spots, daxVolatility \in FetchedVolatilities :
         RefreshDaxSpot(daxSpot, daxVolatility) =>
           /\ RefreshKeepsStored(structures, structures')
           /\ RefreshValues(structures, structures',
                            {l \in StoreLegs : ~IsSome(l.closingDate)},
                            daxSpot, daxVolatility, marketData.riskFreeRate)]_vars

\* C18: during a live refresh an open leg is valued with the market-wide
\* volatility when that value is supplied and non-zero and with the leg's own
\* impliedVolatility otherwise, and the refresh never changes the stored
\* impliedVolatility, tradePrice, quantity, strike, expiry or closing fields
\* of any leg, nor any leg of a Closed structure.
C18_RefreshIvAndFrame ==
    [][\A daxSpot \in Spots, daxVolatility \in FetchedVolatilities :
         RefreshDaxSpot(daxSpot, daxVolatility) =>
           /\ RefreshKeepsStored(structures, structures')
           /\ RefreshValues(structures, structures',
                            {l \in StoreLegs : ~isLegClosed(l)},
                            daxSpot, daxVolatility, marketData.riskFreeRate)]_vars

\* the open legs the program holds whose expiry is not after the clock
ExpiredOpenLegs(legs) ==
    {legs[i] : i \in {j \in 1..Len(legs) :
                        ~isLegClosed(legs[j]) /\ legs[j].expiryDate - now <= 0}}

\* the valuations of an expired open leg of the list and of the refresh, for
\* every volatility and rate
ExpiredInStore(leg) ==
    \A iv \in {leg.impliedVolatility, leg.impliedVolatility + 1},
       rate \in {marketData.riskFreeRate, marketData.riskFreeRate + 1} :
      /\ ListCurrentPrice([leg EXCEPT !.impliedVolatility = iv],
                          [marketData EXCEPT !.riskFreeRate = rate])
           = Intrinsic(leg.optionType, marketData.daxSpot, leg.strike)
      /\ \A daxSpot \in PayoffSpots, daxVolatility \in FetchedVolatilities :
           ~IsSome(leg.closingDate) =>
             RefreshedLeg([leg EXCEPT !.impliedVolatility = iv], daxSpot, daxVolatility,
                          rate).currentPrice
               = Some(Intrinsic(leg.optionType, daxSpot, leg.strike))

\* the valuation of an expired open leg in the detail analysis
ExpiredInDetail(ls, leg) ==
    /\ LegAnalysis(ls, leg).fairValue
         = Intrinsic(leg.optionType, simulatedSpot, leg.strike)
    /\ LegAnalysis(ls, leg).currentPrice >= 0

\* the time to expiry of a leg on the date the chart simulates: its time from
\* the clock less the elapsed share of the time to the first expiry
SimulatedTimeLeft(leg, first, percent) ==
    TimeScale * (leg.expiryDate - now) - (first - now) * percent

\* the valuations of an open leg of the chart at the prices of the grid: on
\* the simulated date, and on the first expiry
ExpiredInChart(leg, first, points) ==
    LET rates == {marketData.riskFreeRate, marketData.riskFreeRate + 1}
        expired == {percent \in SimTimePercents : SimulatedTimeLeft(leg, first, percent) <= 0}
    IN  \A k \in 1..Len(points) :
          LET intrinsic == Intrinsic(leg.optionType, points[k], Scaled(leg.strike))
          IN  /\ intrinsic >= 0
              /\ \A percent \in expired, rate \in rates :
                   ValSimulated(leg, points[k], first, rate, percent) = intrinsic
              /\ leg.expiryDate - first <= 0 =>
                   \A rate \in rates : ValAtExpiry(leg, points[k], first, rate) = intrinsic

----------------------------------------------------------------------------
(* Claims about the aggregators as functions of their arguments *)

\* the results of the three aggregators on what the program holds
AggregatorResults ==
    [list   |-> [k \in 1..Len(structures) |->
                   <<calculatePnlInfoForStructure(structures[k], marketData),
                     calculateTotalGreeks(structures[k], marketData)>>],
     detail |-> IF IsSome(localStructure) THEN Some(analysisOf(Get(localStructure)))
                ELSE None]

\* the arguments of the aggregators: the structures, the market snapshot and
\* the detail view's state the analysis reads
AggregatorArguments == <<structures, marketData, localStructure, simulatedSpot, isLiveMode>>

\* C21: invoking an aggregator (calculatePnlInfoForStructure,
\* calculateTotalGreeks, the detail analysis) twice with identical structure
\* and market snapshot gives identical results: the result depends on no
\* hidden state, in particular on no system clock read inside the engine, and
\* the call mutates neither the structure, its legs nor the market snapshot.
C21_AggregatorsIdempotent ==
    [][AggregatorArguments' = AggregatorArguments
         => AggregatorResults' = AggregatorResults]_vars

----------------------------------------------------------------------------
(* Claims about the Pricing Kernel at its call sites *)

\* strike * e^(-rT) on the integers of the kernel
DiscountedStrike(K, r, T) == K - r * T

\* the inputs the kernel is tabulated on
KernelSpots == {1, 4, 100}
KernelStrikes == {1, 5, 100}
KernelTimes == {1, 2, 30}
KernelRates == {0, 1, 2}
KernelVolatilities == {1, 3}

ParityOnKernel ==
    \A S \in KernelSpots, K \in KernelStrikes, T \in KernelTimes, r \in KernelRates,
       sigma \in KernelVolatilities :
      callPrice(S, K, T, r, sigma) - putPrice(S, K, T, r, sigma)
        = S - DiscountedStrike(K, r, T)

\* the call and the put on the leg's strike and expiry, as the chart values
\* them at a price on the simulated date
ParityInChart(leg, first, price) ==
    LET asCall == [leg EXCEPT !.optionType = "Call"]
        asPut  == [leg EXCEPT !.optionType = "Put"]
        rate   == marketData.riskFreeRate
        left   == SimulatedTimeLeft(leg, first, simTimePercent)
    IN  /\ (1000 * left >= TimeScale /\ leg.impliedVolatility > 0) =>
             ValSimulated(asCall, price, first, rate, simTimePercent)
               - ValSimulated(asPut, price, first, rate, simTimePercent)
               = price - DiscountedStrike(Scaled(leg.strike), rate, left)
        /\ (leg.expiryDate > first /\ leg.impliedVolatility > 0) =>
             ValAtExpiry(asCall, price, first, rate) - ValAtExpiry(asPut, price, first, rate)
               = price - DiscountedStrike(Scaled(leg.strike), rate,
                                          TimeScale * (leg.expiryDate - first))

----------------------------------------------------------------------------
(* Claims about closing from the detail view *)

\* the confirming click on the close button, with every closing price entered,
\* given the outcomes of the calls it makes
ConfirmedClose(updated, fetched1, closed, fetched2) ==
    /\ confirmClose
    /\ IsSome(localStructure)
    /\ Get(localStructure).id # 0
    /\ ~isSaving
    /\ ~missingPrice(Get(localStructure))
    /\ HandleCloseAction(updated, fetched1, closed, fetched2)

\* no row and no structure with this id is Closed
NowhereClosed(rows, list, id) ==
    /\ \A k \in 1..Len(rows) : rows[k].id = id => rows[k].status # "Closed"
    /\ \A k \in 1..Len(list) : list[k].id = id => list[k].status # "Closed"

\* lemma: a close whose updateStructure throws leaves the structure as it was,
\* stays on the detail view, and every close ends with isSaving false
CloseAfterThrownUpdate ==
    [][\A updated \in UpdateOutcomes, fetched1 \in FetchOutcomes,
          closed \in StatusOutcomes, fetched2 \in FetchOutcomes :
         ConfirmedClose(updated, fetched1, closed, fetched2) =>
           /\ isSaving' = FALSE
           /\ updated \in {"structError", "legsError"} =>
                /\ NowhereClosed(db', structures', Get(localStructure).id)
                /\ view' = "detail"]_vars

\* C23: when a structure is closed from the detail view, updateStructure
\* completes before closeStructure is invoked; if updateStructure fails,
\* closeStructure is never invoked and the structure's status stays Active;
\* isSaving is false again after the action ends, succeeded or failed.
C23_CloseOnlyAfterUpdate ==
    [][\A updated \in UpdateOutcomes, fetched1 \in FetchOutcomes,
          closed \in StatusOutcomes, fetched2 \in FetchOutcomes :
         ConfirmedClose(updated, fetched1, closed, fetched2) =>
           /\ isSaving' = FALSE
           /\ updated # "ok" =>
                NowhereClosed(db', structures', Get(localStructure).id)]_vars

\* the realized P&L of the structure the detail view holds, over its enabled
\* legs at their closing prices
ExpectedRealizedPnl(ls) ==
    SumFn([i \in {j \in 1..Len(ls.legs) : ls.legs[j].enabled # "false"} |->
             (Get(ls.legs[i].closingPrice) - ls.legs[i].tradePrice)
                 * ls.legs[i].quantity * ls.multiplier
               - (OrZero(ls.legs[i].openingCommission)
                    + OrZero(ls.legs[i].closingCommission)) * Abs(ls.legs[i].quantity)])

\* the row of the structure is Closed with this realizedPnl
ClosedWith(rows, id, pnl) ==
    \A k \in 1..Len(rows) :
      rows[k].id = id => rows[k].status = "Closed" /\ rows[k].realizedPnl = Some(pnl)

\* a successful close: the row of the structure was not Closed and is Closed
BecameClosed(before, after, id) ==
    /\ \E k \in 1..Len(before) : before[k].id = id /\ before[k].status # "Closed"
    /\ \E k \in 1..Len(after) : after[k].id = id /\ after[k].status = "Closed"

\* C24: the realizedPnl stored by a successful close is the sum over the
\* structure's enabled legs of (closingPrice - tradePrice) * quantity *
\* multiplier - (openingCommission + closingCommission) * |quantity|, whatever
\* the spot, the volatility, the mode and the time at the moment of closing.
C24_RealizedPnlFromClosingPrices ==
    [][(IsSome(localStructure) /\ BecameClosed(db, db', Get(localStructure).id)) =>
         ClosedWith(db', Get(localStructure).id,
                    ExpectedRealizedPnl(Get(localStructure)))]_vars

\* a structure of the backend closed in this session, after a refresh moved
\* the spot, with a realizedPnl that is not the one of the archive
C24_Witness ==
    /\ view = "list"
    /\ marketData.daxSpot # DefaultMarketData.daxSpot
    /\ \E k \in 1..Len(db) :
         /\ db[k].status = "Closed"
         /\ db[k].realizedPnl \notin {None, Some(7), Some(0)}

----------------------------------------------------------------------------
(* Claims about the two-step confirmation of closing and deleting *)

\* the detail view of a saved structure: its close and delete buttons, their
\* timers, and the closing prices the close button validates
NextConfirm ==
    \/ \E id \in {structures[k].id : k \in 1..Len(structures)} : OpenDetail(id)
    \/ BackToList
    \/ \E id \in LifecycleLegIds, e \in LifecycleEdits : HandleLegChange(id, e[1], e[2])
    \/ \E updated \in UpdateOutcomes, fetched1 \in FetchOutcomes,
          closed \in StatusOutcomes, fetched2 \in FetchOutcomes :
         HandleCloseAction(updated, fetched1, closed, fetched2)
    \/ ConfirmCloseTimeout
    \/ \E outcome \in DeleteOutcomes : HandleDeleteAction(outcome)
    \/ ConfirmDeleteTimeout

SpecConfirm == Init /\ [][NextConfirm]_vars

\* a step of a click, of any button
IsClick == actions' = actions + 1

\* the backend or the store's list is written: a store operation ran
StoreWritten == db' # db \/ structures' # structures

\* a click on the close (delete) button while its confirmation was not armed
UnarmedCloseClick == IsClick /\ ~confirmClose /\ closeTimers' = closeTimers + 1

UnarmedDeleteClick == IsClick /\ ~confirmDelete /\ deleteTimers' = deleteTimers + 1

\* the timer that fires is the one the arming click set: no older one is pending
OwnCloseTimerFires == closeTimers = 1 /\ closeTimers' = 0

OwnDeleteTimerFires == deleteTimers = 1 /\ deleteTimers' = 0

\* a click made while the confirmation is not armed only arms it
UnarmedClickOnlyArms ==
    [][/\ UnarmedCloseClick => confirmClose' /\ ~StoreWritten
       /\ UnarmedDeleteClick => confirmDelete' /\ ~StoreWritten]_vars

\* the store is written from this view only by a click made while armed
StoreOperationOnlyWhenArmed ==
    [][StoreWritten => IsClick /\ (confirmClose \/ confirmDelete)]_vars

\* the delete confirmation ends by its own timer, by a click, or with the view
DeleteConfirmationTimed ==
    [][(confirmDelete /\ ~confirmDelete') =>
         OwnDeleteTimerFires \/ IsClick \/ structureId' # structureId]_vars

\* C25: closing and deleting from the detail view take two clicks: a click made
\* while the confirmation is not armed only arms it and calls no store
\* operation; the store operation is invoked only by a click made while armed;
\* an armed confirmation ends only 3 seconds after the click that armed it
\* (that click's timer), by a second click (consumed, or cancelled by the
\* failed validation of the close), or when the displayed structure changes
C25_TwoStepConfirmation ==
    [][/\ UnarmedCloseClick => confirmClose' /\ ~StoreWritten
       /\ UnarmedDeleteClick => confirmDelete' /\ ~StoreWritten
       /\ StoreWritten => IsClick /\ (confirmClose \/ confirmDelete)
       /\ (confirmDelete /\ ~confirmDelete') =>
            OwnDeleteTimerFires \/ IsClick \/ structureId' # structureId
       /\ (confirmClose /\ ~confirmClose') =>
            OwnCloseTimerFires \/ IsClick \/ structureId' # structureId]_vars

----------------------------------------------------------------------------
(* Claims about overlapping refreshes of the market data *)

\* what the await of fetchMarketData yields: data, or nothing (null, or an exception)
RefreshResults ==
    {None} \cup {Some([daxSpot |-> s, daxVolatility |-> v]) :
                   s \in Spots, v \in FetchedVolatilities}

\* the effect calls refreshDaxSpot and sets the interval; the buttons call it;
\* the calls complete in any order, while the clock runs and the views change
NextRefresh ==
    \/ \E caller \in RefreshCallers : RefreshStarts(caller)
    \/ \E result \in RefreshResults : RefreshCompletes(result)
    \/ Tick
    \/ \E id \in {structures[k].id : k \in 1..Len(structures)} : OpenDetail(id)
    \/ BackToList

SpecRefresh == Init /\ [][NextRefresh]_vars

\* isLoadingSpot is false once every refresh has completed
NotLoadingWhenIdle == inFlight = 0 => ~isLoadingSpot

\* after a completed refresh isPriceDelayed tells whether it obtained no data,
\* and a refresh without data leaves marketData and structures alone
DelayedIffNoData ==
    [][\A result \in RefreshResults :
         RefreshCompletes(result) =>
           /\ isPriceDelayed' = (result = None)
           /\ result = None => UNCHANGED <<marketData, structures>>]_vars

\* C26: under any interleaving of refreshDaxSpot calls isLoadingSpot is true
\* whenever at least one refresh is in flight and false once all have
\* completed; after each completed refresh isPriceDelayed is true exactly when
\* that refresh obtained no market data, and then marketData and structures
\* are unchanged
C26_LoadingWhileInFlight ==
    /\ [](isLoadingSpot = (inFlight > 0))
    /\ DelayedIffNoData

----------------------------------------------------------------------------
(* Claims about deleting the selected structures from the list view *)

\* the list view with its bulk delete, and the detail view adding structures
NextDelete ==
    \/ \E ids \in SUBSET IdsOf(structures) : DeleteStructuresStarts(ids)
    \/ \E outcome \in DeleteOutcomes, deleted \in SUBSET IdsOf(db) :
         DeleteStructuresCompletes(outcome, deleted)
    \/ OpenDetail(0)
    \/ BackToList
    \/ \E tag \in Tags : SetTag(tag)
    \/ AddLeg
    \/ \E outcome \in UpdateOutcomes, fetched \in FetchOutcomes :
         HandleSaveAction(outcome, fetched)

SpecDelete == Init /\ [][NextDelete]_vars

\* a call with an empty list returned, a call with ids completed
EmptyDeleteReturned ==
    /\ view = "list" /\ view' = "list" /\ actions' # actions
    /\ deleteState' = "returned" /\ deleteIds' = {}

DeleteCompleted == deleteState = "pending" /\ deleteState' # "pending"

\* deleteStructures with an empty id list changes nothing
EmptyDeleteChangesNothing ==
    [][EmptyDeleteReturned => UNCHANGED <<db, structures, isLoading>>]_vars

\* a failed deleteStructures rethrows and leaves the store's list unchanged,
\* and isLoading is false after every call
FailedDeleteKeepsList ==
    [][/\ \A outcome \in DeleteOutcomes, deleted \in SUBSET IdsOf(db) :
            (DeleteStructuresCompletes(outcome, deleted)
               /\ (outcome # "ok" \/ deleted = {})) =>
              deleteState' = "thrown" /\ structures' = structures
       /\ DeleteCompleted => ~isLoading'
       /\ (DeleteCompleted /\ deleteState' = "thrown") => structures' = structures]_vars

\* C27: deleteStructures with an empty id list changes nothing; when it fails
\* (not authenticated, backend error, zero rows deleted) it rethrows and leaves
\* the local list unchanged; when it returns successfully the structures
\* removed from the local list are the structures deleted in the backend; in
\* both cases isLoading is false afterwards
C27_DeleteStructures ==
    [][/\ EmptyDeleteReturned => UNCHANGED <<db, structures, isLoading>>
       /\ DeleteCompleted => ~isLoading'
       /\ (DeleteCompleted /\ deleteState' = "thrown") => structures' = structures
       /\ (DeleteCompleted /\ deleteState' = "returned") =>
            IdsOf(structures) \ IdsOf(structures') = IdsOf(db) \ IdsOf(db')]_vars

----------------------------------------------------------------------------
(* Claims about the two tests for a closed leg *)

\* refreshDaxSpot: if (leg.closingDate) return leg
ClosedForRefresh(leg) == IsSome(leg.closingDate)

\* the aggregators: closingPrice !== null && closingPrice !== undefined
\* && Number(closingPrice) !== 0
ClosedForAggregators(leg) == IsSome(leg.closingPrice) /\ Get(leg.closingPrice) # 0

TestsAgree(legs) ==
    \A i \in 1..Len(legs) : ClosedForRefresh(legs[i]) <=> ClosedForAggregators(legs[i])

\* the legs being edited, and the legs of the store and of the backend
ClosedTestsAgree ==
    /\ IsSome(localStructure) => TestsAgree(Get(localStructure).legs)
    /\ \A k \in 1..Len(structures) : TestsAgree(structures[k].legs)
    /\ \A k \in 1..Len(db) : TestsAgree(db[k].legs)

\* a step of handleLegChange on the structure being edited
IsLegEdit ==
    /\ IsSome(localStructure) /\ IsSome(localStructure')
    /\ structureId' = structureId
    /\ steps' = steps + 1
    /\ Len(Get(localStructure').legs) = Len(Get(localStructure).legs)

\* entering a closing price on a leg with no closing date sets the date to
\* today; no edit of the closing price changes a closing date that is there
ClosingDateAutomation ==
    [][IsLegEdit =>
         \A i \in 1..Len(Get(localStructure).legs) :
           LET before == Get(localStructure).legs[i]
               after  == Get(localStructure').legs[i]
           IN  (after.closingPrice # before.closingPrice) =>
                 /\ IsSome(before.closingDate) => after.closingDate = before.closingDate
                 /\ (IsSome(after.closingPrice) /\ ~IsSome(before.closingDate)) =>
                      after.closingDate = Some(now)]_vars

\* C28: after any sequence of leg edits a leg is skipped by the live refresh
\* (it has a closingDate) exactly when the P&L and Greeks aggregators treat
\* it as closed (closingPrice non-null and non-zero); entering a closing price
\* on a leg with no closing date sets the date to today and never overwrites
\* an existing closing date
C28_ClosedTestsAgree ==
    /\ []ClosedTestsAgree
    /\ ClosingDateAutomation

----------------------------------------------------------------------------
(* The market data service: withRetry *)

MaxAttempts == 3      \* the largest maxRetries a call is made with

\* everything but the calls of the market data service
appVars == <<storeVars, detailVars, steps, actions, equityVars, chartVars,
             refreshVars, deleteVars>>

\* variant: the same delay before every retry
RetryDelayConstant(baseDelay, i) == baseDelay

\* baseDelay * Math.pow(2, i)
RetryDelay(baseDelay, i) == baseDelay * 2^i

\* the call at its first attempt: i = 0, lastError undefined
StartedRetry(maxRetries, baseDelay) ==
    [pc |-> "try", maxRetries |-> maxRetries, baseDelay |-> baseDelay, i |-> 0,
     attempts |-> <<>>, waits |-> <<>>, value |-> None, lastError |-> None]

\* what one call of fn does: it resolves with a value or rejects with an error
Resolved(value) == [ok |-> TRUE, value |-> value, error |-> ""]
Rejected(error) == [ok |-> FALSE, value |-> 0, error |-> error]

FnOutcomes == {Resolved(7), Resolved(9), Rejected("Offline"), Rejected("Dati non validi")}

BaseDelays == {1, 1000}

\* withRetry(fn, maxRetries, baseDelay) is called
WithRetry(maxRetries, baseDelay) ==
    /\ retry.pc = "idle"
    /\ fetch.pc = "idle"
    /\ retry' = StartedRetry(maxRetries, baseDelay)
    /\ UNCHANGED <<appVars, fetch>>

\* one pass of the loop up to its await: return await fn(), or the catch block
AfterAttempt(r, outcome) ==
    LET tried == [r EXCEPT !.attempts = Append(@, outcome)]
    IN  IF outcome.ok
        THEN [tried EXCEPT !.pc = "returned", !.value = Some(outcome.value)]
        ELSE IF r.i < r.maxRetries - 1
        THEN [tried EXCEPT !.pc = "wait", !.lastError = Some(outcome.error),
                           !.waits = Append(@, RetryDelay(r.baseDelay, r.i))]
        ELSE \* i++ ends the loop: throw lastError
             [tried EXCEPT !.pc = "thrown", !.lastError = Some(outcome.error),
                           !.i = @ + 1]

RetryAttempt(outcome) ==
    /\ retry.pc = "try"
    /\ retry' = AfterAttempt(retry, outcome)
    /\ UNCHANGED <<appVars, fetch>>

\* the setTimeout of the catch block resolves: i++, and the next pass
RetryWaitEnds ==
    /\ retry.pc = "wait"
    /\ retry' = [retry EXCEPT !.pc = "try", !.i = @ + 1]
    /\ UNCHANGED <<appVars, fetch>>

NextRetry ==
    \/ \E maxRetries \in 1..MaxAttempts, baseDelay \in BaseDelays :
         WithRetry(maxRetries, baseDelay)
    \/ \E outcome \in FnOutcomes : RetryAttempt(outcome)
    \/ RetryWaitEnds

SpecRetry == Init /\ [][NextRetry]_vars

----------------------------------------------------------------------------
(* Claims about withRetry *)

AllRejected(attempts) == \A k \in 1..Len(attempts) : ~attempts[k].ok

\* the waits so far are baseDelay, 2 baseDelay, 4 baseDelay, ...: the k-th
\* wait follows the failure of attempt k - 1, counted from 0
WaitsDouble(r) == \A k \in 1..Len(r.waits) : r.waits[k] = r.baseDelay * 2^(k - 1)

\* C29: withRetry invokes fn at most maxRetries times, returns the value of
\* the first successful attempt without further attempts, rethrows the error
\* of the last attempt when all maxRetries attempts fail, waits
\* baseDelay * 2^i before the attempt that follows the i-th failure, and
\* does not wait after the final failed attempt
C29_WithRetry ==
    retry.pc # "idle" =>
      LET n == Len(retry.attempts)
      IN  /\ n <= retry.maxRetries
          /\ AllRejected(SubSeq(retry.attempts, 1, n - 1))
          /\ WaitsDouble(retry)
          /\ retry.pc = "try" => AllRejected(retry.attempts) /\ Len(retry.waits) = n
          /\ retry.pc = "wait" => AllRejected(retry.attempts) /\ Len(retry.waits) = n
          /\ retry.pc = "returned" =>
                /\ retry.attempts[n].ok
                /\ retry.value = Some(retry.attempts[n].value)
                /\ Len(retry.waits) = n - 1
          /\ retry.pc = "thrown" =>
                /\ n = retry.maxRetries
                /\ AllRejected(retry.attempts)
                /\ retry.lastError = Some(retry.attempts[n].error)
                /\ Len(retry.waits) = n - 1

\* three attempts failed with different errors and the last error is thrown
C29_Witness ==
    /\ retry.pc = "thrown"
    /\ Len(retry.attempts) = 3
    /\ retry.attempts[1] # retry.attempts[3]
    /\ retry.waits = <<1000, 2000>>

----------------------------------------------------------------------------
(* The market data service: fetchMarketData.  Prices and index levels are  *)
(* in hundredths.                                                          *)

GeminiLow == 10000    \* a Gemini price is accepted above this
GeminiHigh == 40000   \* and below this

Hundredths(units) == units * 100

\* what the proxy request gives: the browser is offline, the response is not
\* ok, or a body whose regularMarketPrice is missing or a number
ProxyAnswers ==
    {[kind |-> k, spot |-> 0] : k \in {"offline", "status", "missing"}}
      \cup {[kind |-> "number", spot |-> n] : n \in {-100, 0, 1850, 1823456}}

\* fetchFromYahooViaProxy(symbol, proxyBaseUrl)
fetchFromYahooViaProxy(answer) ==
    CASE answer.kind = "offline" -> Rejected("Offline")
      [] answer.kind = "status"  -> Rejected("Proxy Error")
      [] answer.kind = "number" /\ answer.spot > 0 -> Resolved(answer.spot)
      [] OTHER -> Rejected("Dati non validi")

DigitChars == {"0", "1", "2", "3", "4", "5", "6", "7", "8", "9"}

\* text.replace(/[^0-9.]/g, '')
OnlyDigitsAndDots(text) == SelectSeq(text, LAMBDA c : c \in DigitChars \cup {"."})

\* the digits a text starts with
RECURSIVE LeadingDigits(_)
LeadingDigits(text) ==
    IF text = <<>> \/ text[1] \notin DigitChars THEN <<>>
    ELSE <<text[1]>> \o LeadingDigits(Tail(text))

\* the number a run of digits writes
RECURSIVE DigitsValue(_)
DigitsValue(digits) ==
    IF digits = <<>> THEN 0
    ELSE 10 * DigitsValue(SubSeq(digits, 1, Len(digits) - 1))
           + DigitValue[digits[Len(digits)]]

\* parseFloat(text), for a text of digits and dots: the digits up to the
\* first dot and the digits that follow it; None is NaN.  The value is in
\* hundredths, the digits past the second decimal are dropped
parseFloat(text) ==
    LET whole == LeadingDigits(text)
        rest  == SubSeq(text, Len(whole) + 1, Len(text))
        decimals == IF rest # <<>> /\ rest[1] = "." THEN LeadingDigits(Tail(rest))
                    ELSE <<>>
        two == SubSeq(decimals \o <<"0", "0">>, 1, 2)
    IN  IF whole = <<>> /\ decimals = <<>> THEN None
        ELSE Some(Hundredths(DigitsValue(whole)) + DigitsValue(two))

\* what the Gemini request gives: no API key, an exception, or a text
GeminiTexts ==
    { <<"1", "8", "2", "3", "4", ".", "5", "6">>,
      <<"1", "0", "0", "0", "0">>,
      <<"1", "0", "0", "0", "0", ".", "0", "1">>,
      <<"4", "0", "0", "0", "0">>,
      <<"3", "9", "9", "9", "9", ".", "9", "9">>,
      <<"D", "A", "X", " ", "4", "0", ":", " ", "1", "8", "2", "3", "4">>,
      <<"1", "8", ".", "2", "3", "4", ",", "5", "6">>,
      <<>>,
      <<"-", "1", "5", "0", "0", "0">>,
      <<"n", "/", "a", ".">> }

GeminiAnswers ==
    {[kind |-> k, text |-> <<>>] : k \in {"nokey", "error"}}
      \cup {[kind |-> "text", text |-> t] : t \in GeminiTexts}

\* variant: the bounds themselves accepted
fetchDaxPriceViaGeminiInclusive(answer) ==
    IF answer.kind # "text" THEN None
    ELSE LET price == parseFloat(OnlyDigitsAndDots(answer.text))
         IN  IF IsSome(price) /\ Get(price) >= Hundredths(GeminiLow)
                /\ Get(price) <= Hundredths(GeminiHigh)
             THEN price ELSE None

\* fetchDaxPriceViaGemini(): the price, or None for null
fetchDaxPriceViaGemini(answer) ==
    IF answer.kind # "text" THEN None
    ELSE LET price == parseFloat(OnlyDigitsAndDots(answer.text))
         IN  IF IsSome(price) /\ Get(price) > Hundredths(GeminiLow)
                /\ Get(price) < Hundredths(GeminiHigh)
             THEN price ELSE None

\* fetchMarketData() is called: the first withRetry, on the primary proxy
FetchMarketData ==
    /\ fetch.pc = "idle"
    /\ retry.pc = "idle"
    /\ fetch' = [pc |-> "daxPrimary", daxSpot |-> None, daxVolatility |-> 0,
                 failed |-> {}, data |-> None]
    /\ retry' = StartedRetry(2, 1000)
    /\ UNCHANGED appVars

\* return { daxSpot, daxVolatility }
ReturnedData(f, daxVolatility) ==
    [f EXCEPT !.pc = "returned", !.daxVolatility = daxVolatility,
              !.data = Some([daxSpot |-> Get(f.daxSpot), daxVolatility |-> daxVolatility])]

\* a withRetry of fetchMarketData has ended: the assignment, or the catch
\* block that its exception reaches
FetchContinues ==
    /\ fetch.pc \in {"daxPrimary", "daxFallback", "vdaxPrimary", "vdaxFallback"}
    /\ retry.pc \in {"returned", "thrown"}
    /\ LET failedToo == [fetch EXCEPT !.failed = @ \cup {fetch.pc}]
       IN  CASE fetch.pc \in {"daxPrimary", "daxFallback"} /\ retry.pc = "returned" ->
                  /\ fetch' = [fetch EXCEPT !.pc = "vdaxPrimary", !.daxSpot = retry.value]
                  /\ retry' = StartedRetry(2, 1000)
             [] fetch.pc = "daxPrimary" /\ retry.pc = "thrown" ->
                  /\ fetch' = [failedToo EXCEPT !.pc = "daxFallback"]
                  /\ retry' = StartedRetry(2, 1000)
             [] fetch.pc = "daxFallback" /\ retry.pc = "thrown" ->
                  \* the outer catch
                  /\ fetch' = [failedToo EXCEPT !.pc = "gemini"]
                  /\ retry' = NoRetry
             [] fetch.pc \in {"vdaxPrimary", "vdaxFallback"} /\ retry.pc = "returned" ->
                  /\ fetch' = ReturnedData(fetch, Get(retry.value))
                  /\ retry' = NoRetry
             [] fetch.pc = "vdaxPrimary" /\ retry.pc = "thrown" ->
                  /\ fetch' = [failedToo EXCEPT !.pc = "vdaxFallback"]
                  /\ retry' = StartedRetry(2, 1000)
             [] OTHER ->
                  \* catch (e2): daxVolatility is still 0
                  /\ fetch' = ReturnedData(failedToo, fetch.daxVolatility)
                  /\ retry' = NoRetry
    /\ UNCHANGED appVars

\* the outer catch: spot ? { daxSpot: spot, daxVolatility: 0 } : null
GeminiFallback(answer) ==
    /\ fetch.pc = "gemini"
    /\ LET spot == fetchDaxPriceViaGemini(answer)
       IN  fetch' = IF IsSome(spot) /\ Get(spot) # 0
                    THEN [fetch EXCEPT !.pc = "returned", !.daxSpot = spot,
                                       !.data = Some([daxSpot |-> Get(spot),
                                                      daxVolatility |-> 0])]
                    ELSE [fetch EXCEPT !.pc = "returned", !.failed = @ \cup {"gemini"},
                                       !.data = None]
    /\ UNCHANGED <<appVars, retry>>

NextFetch ==
    \/ FetchMarketData
    \/ \E answer \in ProxyAnswers : RetryAttempt(fetchFromYahooViaProxy(answer))
    \/ RetryWaitEnds
    \/ FetchContinues
    \/ \E answer \in GeminiAnswers : GeminiFallback(answer)

SpecFetch == Init /\ [][NextFetch]_vars

----------------------------------------------------------------------------
(* Claims about fetchMarketData *)

DaxStages == {"daxPrimary", "daxFallback"}
VdaxStages == {"vdaxPrimary", "vdaxFallback"}

\* the stage is reached only after these have failed
ComesAfter ==
    [daxPrimary |-> {}, daxFallback |-> {"daxPrimary"}, gemini |-> DaxStages,
     vdaxPrimary |-> {}, vdaxFallback |-> {"vdaxPrimary"}]

\* C30: fetchMarketData never throws: it tries the primary proxy, then the
\* fallback proxy, then Gemini for the DAX spot, and returns null only when
\* all three fail; the volatility failing on every proxy does not fail the
\* call but yields daxVolatility = 0 with the fetched spot; every non-null
\* result has daxSpot > 0, and a Gemini price is accepted only strictly
\* between 10000 and 40000
C30_FetchMarketData ==
    fetch.pc # "idle" =>
      /\ fetch.pc # "thrown"
      /\ fetch.pc \in DOMAIN ComesAfter => ComesAfter[fetch.pc] \subseteq fetch.failed
      /\ "gemini" \in fetch.failed => DaxStages \subseteq fetch.failed
      /\ fetch.pc = "returned" =>
           /\ fetch.data = None <=> DaxStages \cup {"gemini"} \subseteq fetch.failed
           /\ IsSome(fetch.data) =>
                /\ Get(fetch.data).daxSpot > 0
                /\ Get(fetch.data).daxSpot = Get(fetch.daxSpot)
                /\ VdaxStages \subseteq fetch.failed => Get(fetch.data).daxVolatility = 0
                /\ DaxStages \subseteq fetch.failed =>
                     /\ Get(fetch.data).daxSpot > Hundredths(GeminiLow)
                     /\ Get(fetch.data).daxSpot < Hundredths(GeminiHigh)
                     /\ Get(fetch.data).daxVolatility = 0

\* a call whose volatility failed on both proxies returned the fetched spot
VolatilityFailedOnEveryProxy ==
    /\ fetch.pc = "returned"
    /\ IsSome(fetch.data)
    /\ VdaxStages \subseteq fetch.failed
    /\ Get(fetch.data).daxSpot = 1823456

\* both proxies failed for the spot and Gemini's price was accepted
C30_Witness ==
    /\ fetch.pc = "returned"
    /\ IsSome(fetch.data)
    /\ DaxStages \subseteq fetch.failed
    /\ Get(fetch.data).daxSpot = 1000001

====
